---- MODULE Spec2Model ----
(***************************************************************************)
(* Model of the multi-provider agent layer of LiveChat-IA:                 *)
(*   agents/base_agent.py     BaseAgent (construction, validate_config)    *)
(*   agents/*_agent.py        the five provider clients                    *)
(*   agents/agent_factory.py  AgentFactory (registry, create_agent, ...)   *)
(*                            AgentManager (the clients of a session)      *)
(*   utils/logger.py          Logger.log_chat_interaction                  *)
(*                                                                         *)
(* Python strings are sequences of one-character strings, so that          *)
(* str.lower() and str.strip() are computed and not assumed.  Fixed        *)
(* literals of the source (error prefixes, default names) are kept as      *)
(* single multi-character elements of such a sequence.                     *)
(* A dict is a record of options: <<>> when the key is absent, <<v>> when  *)
(* the key is present with value v.                                        *)
(***************************************************************************)
EXTENDS Integers, Sequences, FiniteSets, TLC

VARIABLES
    AGENT_CLASSES,      \* AgentFactory.AGENT_CLASSES
    last,               \* the call a sequential caller has in progress
    active_agents,      \* AgentManager.active_agents
    default_agent,      \* AgentManager.default_agent
    clients,            \* the client instances concurrent callers hold
    threads,            \* the worker threads that are running
    after_queue,        \* callbacks scheduled with after(0, ...) on the UI thread
    checked,            \* BeamComparison: ids of the checked model checkboxes
    send_enabled,       \* BeamComparison: state of the send button
    current_responses,  \* BeamComparison.current_responses
    status_label,       \* BeamComparison: what the status label shows
    requests_started,   \* BeamComparison: comparisons started so far; names them
    chat_history        \* ChatInterface.chat_history

\* the state of the user-interface components and of the threads they start
\* the state of the comparison view
beamVars == <<checked, send_enabled, current_responses, status_label, requests_started>>

uiVars == <<clients, threads, after_queue, beamVars, chat_history>>

\* the state of the factory, of the manager and of a sequential caller
coreVars == <<AGENT_CLASSES, last, active_agents, default_agent>>

vars == <<AGENT_CLASSES, last, active_agents, default_agent, uiVars>>

(***************************************************************************)
(* Bounds of the model.                                                    *)
(***************************************************************************)
\* longest conversation context passed to get_response
MaxContext == 1
\* longest reply text a provider sends back
MaxText == 3
\* longest text whose cost is estimated
MaxCostLen == 8
\* longest context of a call whose outgoing request is observed
MaxTurns == 3

(***************************************************************************)
(* Python values.                                                          *)
(***************************************************************************)
\* Python's None where a string is expected; no string equals it
None == <<"<None>">>

\* the empty str
EmptyStr == <<>>

\* truth value Python gives a str-or-None value: None and "" are falsy
Truthy(v) == v # None /\ v # EmptyStr

\* the characters str.lower() changes, with their images
UpperToLower ==
    [c \in {"A", "C", "G", "I", "L", "M", "O", "P", "Q", "R", "S", "T", "U"} |->
        CASE c = "A" -> "a" [] c = "C" -> "c" [] c = "G" -> "g"
          [] c = "I" -> "i" [] c = "L" -> "l" [] c = "M" -> "m"
          [] c = "O" -> "o" [] c = "P" -> "p" [] c = "Q" -> "q"
          [] c = "R" -> "r" [] c = "S" -> "s" [] c = "T" -> "t"
          [] c = "U" -> "u"]

\* str.lower()
Lower(s) ==
    [i \in DOMAIN s |-> IF s[i] \in DOMAIN UpperToLower THEN UpperToLower[s[i]] ELSE s[i]]

\* str.strip(): leading and trailing whitespace removed
RECURSIVE LStrip(_)
LStrip(s) == IF s # <<>> /\ Head(s) = " " THEN LStrip(Tail(s)) ELSE s

RECURSIVE RStrip(_)
RStrip(s) ==
    IF s # <<>> /\ s[Len(s)] = " " THEN RStrip(SubSeq(s, 1, Len(s) - 1)) ELSE s

Strip(s) == RStrip(LStrip(s))

(***************************************************************************)
(* Provider identifiers and configuration records.                         *)
(***************************************************************************)
openai == <<"o", "p", "e", "n", "a", "i">>
anthropic == <<"a", "n", "t", "h", "r", "o", "p", "i", "c">>
google == <<"g", "o", "o", "g", "l", "e">>
ollama == <<"o", "l", "l", "a", "m", "a">>
groq == <<"g", "r", "o", "q">>
custom == <<"c", "u", "s", "t", "o", "m">>
unknown == <<"m", "i", "s", "t", "r", "a", "l">>

\* the five identifiers the factory registers
BuiltinProviders == {openai, anthropic, google, ollama, groq}

\* other letter-casings of registered identifiers
OpenAI == <<"O", "p", "e", "n", "A", "I">>
Anthropic == <<"A", "n", "t", "h", "r", "o", "p", "i", "c">>
GOOGLE == <<"G", "O", "O", "G", "L", "E">>
Ollama == <<"O", "l", "l", "a", "m", "a">>
OLLAMA == <<"O", "L", "L", "A", "M", "A">>
Groq == <<"G", "r", "o", "q">>
Custom == <<"C", "u", "s", "t", "o", "m">>

\* provider strings a caller passes
ProviderStrings ==
    BuiltinProviders \cup {OpenAI, Anthropic, GOOGLE, Ollama, OLLAMA, Groq,
                           custom, Custom, unknown, EmptyStr}

\* provider arguments of create_agent: a string, or None from a record without one
ProviderArgs == ProviderStrings \cup {None}

\* values a text field of a configuration record holds
FieldValues == {None, EmptyStr, <<"x">>}

\* an optional dict entry: absent, or present with one of vals
Option(vals) == {<<>>} \cup {<<v>> : v \in vals}

\* values the provider field of a configuration record holds
ConfigProviders ==
    {None, EmptyStr} \cup BuiltinProviders \cup {OpenAI, Ollama, OLLAMA, Groq}

\* the configuration dicts handed to the factory and to the clients
Configs ==
    [name : Option(FieldValues),
     provider : Option(ConfigProviders),
     model_name : Option(FieldValues),
     api_key : Option(FieldValues)]

\* key in dict
HasKey(d, key) == key \in DOMAIN d /\ d[key] # <<>>

\* dict.get(key): None when the key is absent
DictGet(d, key) == IF HasKey(d, key) THEN d[key][1] ELSE None

\* dict.get(key, default)
DictGetDefault(d, key, default) == IF HasKey(d, key) THEN d[key][1] ELSE default

\* the max_tokens of a client whose config names none
DefaultMaxTokens == 2048
\* the temperature of a client whose config names none, in tenths (0.7)
DefaultTemperature == 7

(***************************************************************************)
(* Client classes.                                                         *)
(***************************************************************************)
\* the five provider clients of agents/
ClientClasses == {"OpenAIAgent", "ClaudeAgent", "GeminiAgent", "OllamaAgent", "GroqAgent"}

\* classes a caller hands to register_agent_class: a concrete BaseAgent
\* subclass, BaseAgent itself (abstract), and a class outside the hierarchy
RegistrableClasses == {"CustomAgent", "BaseAgent", "object"}

\* issubclass(agent_class, BaseAgent)
IsSubclassOfBaseAgent(agent_class) == agent_class \in ClientClasses \cup {"CustomAgent", "BaseAgent"}

\* a class with unimplemented @abstractmethod members cannot be instantiated
IsAbstract(agent_class) == agent_class = "BaseAgent"

\* create_agent's "no instance" result
NoAgent == [cls |-> "NoneType"]

\* the outcome of a call: the exception it ends with ("none": it returns) and
\* the value it returns
Returns(v) == [exc |-> "none", val |-> v]
Raises(e) == [exc |-> e, val |-> None]

\* BaseAgent.__init__: the attributes are read from the config once
BaseAgentInit(agent_class, config) ==
    [cls |-> agent_class,
     config |-> config,
     name |-> DictGetDefault(config, "name", <<"Agente Desconocido">>),
     provider |-> DictGetDefault(config, "provider", EmptyStr),
     model_name |-> DictGetDefault(config, "model_name", EmptyStr),
     api_key |-> DictGetDefault(config, "api_key", EmptyStr),
     max_tokens |-> DictGetDefault(config, "max_tokens", DefaultMaxTokens),
     temperature |-> DictGetDefault(config, "temperature", DefaultTemperature),
     api_url |-> DictGetDefault(config, "api_url", EmptyStr),
     default_params |-> DictGetDefault(config, "default_params", [k \in {} |-> None])]

\* agent_class(config): ABCMeta refuses to instantiate an abstract class
Construct(agent_class, config) ==
    IF IsAbstract(agent_class)
    THEN Raises("TypeError")
    ELSE Returns(BaseAgentInit(agent_class, config))

\* Faulty variant of ValidateConfig: the local runner is not exempt from the API key.
ValidateConfigNoLocalExemption(agent) ==
    /\ \A field \in {"name", "provider", "model_name"} : Truthy(DictGet(agent.config, field))
    /\ Truthy(agent.api_key)

\* BaseAgent.validate_config
ValidateConfig(agent) ==
    IF \E field \in {"name", "provider", "model_name"} : ~Truthy(DictGet(agent.config, field))
    THEN FALSE
    ELSE IF ~Truthy(agent.api_key) /\ agent.provider # ollama
    THEN FALSE
    ELSE TRUE

\* Faulty variant of GetInfo: the status does not consult validate_config.
GetInfoAlwaysConfigured(agent) ==
    [name |-> agent.name,
     provider |-> agent.provider,
     model_name |-> agent.model_name,
     max_tokens |-> agent.max_tokens,
     temperature |-> agent.temperature,
     status |-> "configured"]

\* BaseAgent.get_info: the identity of the client and its status
GetInfo(agent) ==
    [name |-> agent.name,
     provider |-> agent.provider,
     model_name |-> agent.model_name,
     max_tokens |-> agent.max_tokens,
     temperature |-> agent.temperature,
     status |-> IF ValidateConfig(agent) THEN "configured" ELSE "error"]

(***************************************************************************)
(* AgentFactory.                                                           *)
(***************************************************************************)
\* AgentFactory.AGENT_CLASSES as the class body sets it
InitialAgentClasses ==
    [p \in BuiltinProviders |->
        CASE p = openai -> "OpenAIAgent"
          [] p = anthropic -> "ClaudeAgent"
          [] p = google -> "GeminiAgent"
          [] p = ollama -> "OllamaAgent"
          [] p = groq -> "GroqAgent"]

\* provider_requirements of _validate_config
ProviderRequirements ==
    [p \in BuiltinProviders |-> IF p = ollama THEN {} ELSE {"api_key"}]

\* AgentFactory._validate_config
FactoryValidateConfig(provider, config, validate_api_key) ==
    IF \E field \in {"name", "model_name"} : ~Truthy(DictGet(config, field))
    THEN FALSE
    ELSE IF validate_api_key
    THEN LET provider_fields ==
                 IF Lower(provider) \in DOMAIN ProviderRequirements
                 THEN ProviderRequirements[Lower(provider)]
                 ELSE {}
         IN  ~(\E field \in provider_fields : ~Truthy(DictGet(config, field)))
    ELSE TRUE

\* what a create_agent call did: how it ended, the class whose constructor it
\* invoked ("none": no constructor), whether it consulted the client's own
\* validate_config
Created(outcome, agent_class, consulted) ==
    [exc |-> outcome.exc, val |-> outcome.val,
     constructed |-> agent_class, consulted |-> consulted]

\* the try block of create_agent
CreateAgentTry(registry, provider, config, validate_api_key) ==
    IF provider = None
    THEN Created(Raises("AttributeError"), "none", FALSE)
    ELSE IF Lower(provider) \notin DOMAIN registry
    THEN Created(Returns(NoAgent), "none", FALSE)
    ELSE LET agent_class == registry[Lower(provider)]
             agent == Construct(agent_class, config)
         IN  IF ~FactoryValidateConfig(provider, config, validate_api_key) /\ validate_api_key
             THEN Created(Returns(NoAgent), "none", FALSE)
             ELSE IF agent.exc # "none"
             THEN Created(agent, agent_class, FALSE)
             ELSE IF validate_api_key /\ ~ValidateConfig(agent.val)
             THEN Created(Returns(NoAgent), agent_class, TRUE)
             ELSE Created(agent, agent_class, validate_api_key)

\* Faulty variant of CreateAgent: no except clause around the body.
CreateAgentNoHandler(registry, provider, config, validate_api_key) ==
    CreateAgentTry(registry, provider, config, validate_api_key)

\* Faulty variant of CreateAgent: validate_api_key is ignored and taken as False.
CreateAgentNeverValidates(registry, provider, config, validate_api_key) ==
    LET r == CreateAgentTry(registry, provider, config, FALSE)
    IN  IF r.exc # "none" THEN [r EXCEPT !.exc = "none", !.val = NoAgent] ELSE r

\* Faulty variant of CreateAgent: validate_api_key is ignored and taken as True.
CreateAgentAlwaysValidates(registry, provider, config, validate_api_key) ==
    LET r == CreateAgentTry(registry, provider, config, TRUE)
    IN  IF r.exc # "none" THEN [r EXCEPT !.exc = "none", !.val = NoAgent] ELSE r

\* Faulty variant of CreateAgent: the instance is returned without the
\* second validation phase.
CreateAgentSinglePhase(registry, provider, config, validate_api_key) ==
    LET r == CreateAgentTry(registry, provider, config, validate_api_key)
        agent == Construct(registry[Lower(provider)], config)
    IN  IF r.exc # "none"
        THEN [r EXCEPT !.exc = "none", !.val = NoAgent]
        ELSE IF r.consulted /\ r.val = NoAgent
        THEN [r EXCEPT !.val = agent.val]
        ELSE r

\* AgentFactory.create_agent: the try block, and the except clause that turns
\* every exception into None
CreateAgent(registry, provider, config, validate_api_key) ==
    LET r == CreateAgentTry(registry, provider, config, validate_api_key)
    IN  IF r.exc # "none" THEN [r EXCEPT !.exc = "none", !.val = NoAgent] ELSE r

(***************************************************************************)
(* The network, as a client call sees it: a requests call either raises or *)
(* yields a response with a status code and a body.                        *)
(***************************************************************************)
\* model identifiers a listing reply names
ListedModels == {<<"x">>, <<"y">>}

\* exceptions of requests that are ConnectionError subclasses
IsConnectionError(e) == e \in {"ConnectionError", "ConnectTimeout"}

\* what a probe (GET models, GET api/tags, or a minimal POST) comes back with
ProbeReplies ==
    [kind : {"ConnectionError", "ConnectTimeout", "ReadTimeout"},
     status : {"none"}, parsable : {FALSE}, models : {{}}]
    \cup
    [kind : {"response"}, status : {"401", "500"},
     parsable : {FALSE}, models : {{}}]
    \cup
    [kind : {"response"}, status : {"200"},
     parsable : BOOLEAN, models : SUBSET ListedModels]

\* what an arbitrary registered client class may do in test_connection
CustomProbeBehaviours == {"success", "failure", "raise"}

\* the dict test_connection returns
ProbeResult(success, error) == [success |-> success, error |-> error]

\* Faulty variant of TestConnection: any reply of the server counts as a
\* working connection, whatever its status.
TestConnectionAnyStatus(agent, reply, behaviour) ==
    IF reply.kind = "response"
    THEN Returns(ProbeResult(TRUE, <<>>))
    ELSE Returns(ProbeResult(FALSE, <<reply.kind>>))

\* test_connection of the client classes; behaviour is what a class registered
\* at runtime does, the abstract method fixing only the signature
TestConnection(agent, reply, behaviour) ==
    IF agent.cls \notin ClientClasses
    THEN CASE behaviour = "success" -> Returns(ProbeResult(TRUE, <<>>))
           [] behaviour = "failure" -> Returns(ProbeResult(FALSE, <<"failure">>))
           [] OTHER -> Raises("RuntimeError")
    ELSE IF agent.cls = "OllamaAgent"
    THEN IF reply.kind # "response"
         THEN IF IsConnectionError(reply.kind)
              THEN Returns(ProbeResult(FALSE, <<"Ollama no esta ejecutandose">>))
              ELSE Returns(ProbeResult(FALSE, <<reply.kind>>))
         ELSE IF reply.status = "200"
         THEN IF ~reply.parsable
              THEN Returns(ProbeResult(FALSE, <<"JSONDecodeError">>))
              ELSE IF agent.model_name \in reply.models
              THEN Returns(ProbeResult(TRUE, <<>>))
              ELSE Returns(ProbeResult(FALSE, <<"Modelo ", agent.model_name, " no encontrado">>))
         ELSE Returns(ProbeResult(FALSE, <<"Error HTTP ", reply.status>>))
    ELSE IF reply.kind # "response"
         THEN Returns(ProbeResult(FALSE, <<reply.kind>>))
         ELSE IF reply.status = "200"
         THEN Returns(ProbeResult(TRUE, <<>>))
         ELSE Returns(ProbeResult(FALSE, <<"Error HTTP ", reply.status>>))

\* network requests a test_connection call issues
TestConnectionRequests(agent) == IF agent.cls \in ClientClasses THEN 1 ELSE 0

\* what a test_agent_connection call did: how it ended and the number of
\* network requests it issued
Probed(outcome, requests) ==
    [exc |-> outcome.exc, val |-> outcome.val, requests |-> requests]

\* the try block of test_agent_connection, around a given create_agent result
TestAgentConnectionTry(created, reply, behaviour) ==
    IF created.exc # "none"
    THEN Probed(Raises(created.exc), 0)
    ELSE IF created.val = NoAgent
    THEN Probed(Returns(ProbeResult(FALSE, <<"No se pudo crear el agente">>)), 0)
    ELSE Probed(TestConnection(created.val, reply, behaviour),
                TestConnectionRequests(created.val))

\* the except clause of test_agent_connection
TestAgentConnectionExcept(r) ==
    IF r.exc # "none"
    THEN [r EXCEPT !.exc = "none", !.val = ProbeResult(FALSE, <<r.exc>>)]
    ELSE r

\* Faulty variant of TestAgentConnection: the agent is created without
\* validation, as the chat window creates it.
TestAgentConnectionUnvalidated(registry, provider, config, reply, behaviour) ==
    TestAgentConnectionExcept(
        TestAgentConnectionTry(CreateAgent(registry, provider, config, FALSE), reply, behaviour))

\* AgentFactory.test_agent_connection
TestAgentConnection(registry, provider, config, reply, behaviour) ==
    TestAgentConnectionExcept(
        TestAgentConnectionTry(CreateAgent(registry, provider, config, TRUE), reply, behaviour))

\* Faulty variant of RegisterAgentClass: no issubclass check.
RegisterAgentClassUnchecked(registry, provider, agent_class) ==
    Returns([p \in DOMAIN registry \cup {Lower(provider)} |->
                IF p = Lower(provider) THEN agent_class ELSE registry[p]])

\* AgentFactory.register_agent_class: the registry after the call, or the
\* exception the call raises
RegisterAgentClass(registry, provider, agent_class) ==
    IF ~IsSubclassOfBaseAgent(agent_class)
    THEN Raises("ValueError")
    ELSE Returns([p \in DOMAIN registry \cup {Lower(provider)} |->
                     IF p = Lower(provider) THEN agent_class ELSE registry[p]])

(***************************************************************************)
(* get_response of the five provider clients.                              *)
(***************************************************************************)
\* a str of length at most n over the characters cs
RECURSIVE StrUpTo(_, _)
StrUpTo(cs, n) ==
    IF n = 0
    THEN {<<>>}
    ELSE LET shorter == StrUpTo(cs, n - 1)
         IN  shorter \cup {Append(t, c) : t \in shorter, c \in cs}

\* reply texts of a model: letters and blanks
Texts == StrUpTo({" ", "a"}, MaxText)

\* messages a user sends
Messages == {EmptyStr, <<"h">>}

\* a turn of the context: a dict that may lack its role or its content
Turns ==
    [role : Option({<<"user">>, <<"assistant">>, <<"system">>}),
     content : Option({<<"c">>})]

\* the context lists handed to get_response
RECURSIVE ListsUpTo(_, _)
ListsUpTo(items, n) ==
    IF n = 0
    THEN {<<>>}
    ELSE LET shorter == ListsUpTo(items, n - 1)
         IN  shorter \cup {Append(l, i) : l \in shorter, i \in items}

Contexts == ListsUpTo(Turns, MaxContext)

\* what the completion call comes back with: a requests exception, an error
\* status, or a 200 whose body is not JSON ("unparsable"), is JSON but no
\* object ("not_object"), lacks the reply field ("missing_field"), has it
\* empty ("empty_list"), has an item of another shape ("malformed_item"), or
\* carries the model's text ("reply")
CompletionReplies ==
    [kind : {"ConnectionError", "ConnectTimeout", "ReadTimeout"},
     status : {"none"}, body : {"none"}, text : {EmptyStr}]
    \cup
    [kind : {"response"}, status : {"401", "500"}, body : {"error"}, text : {EmptyStr}]
    \cup
    [kind : {"response"}, status : {"200"},
     body : {"unparsable", "not_object", "missing_field", "empty_list", "malformed_item"},
     text : {EmptyStr}]
    \cup
    [kind : {"response"}, status : {"200"}, body : {"reply"}, text : Texts]

\* the exception class response.json() raises on a body that is not JSON:
\* requests.exceptions.JSONDecodeError (a RequestException) in recent versions
\* of requests, a plain ValueError in older ones
JsonErrors == {"JSONDecodeError", "ValueError"}

\* the name of the provider in the messages of a client class
ProviderLabel(agent_class) ==
    CASE agent_class = "OpenAIAgent" -> "OpenAI"
      [] agent_class = "ClaudeAgent" -> "Claude"
      [] agent_class = "GeminiAgent" -> "Gemini"
      [] agent_class = "OllamaAgent" -> "Ollama"
      [] agent_class = "GroqAgent" -> "Groq"

\* the parameters of Logger.log_chat_interaction, and those without a default
LogChatInteractionParams ==
    {"user_id", "session_id", "user_message", "agent_response", "response_time_ms"}

LogChatInteractionRequired == {"user_id", "session_id", "user_message", "agent_response"}

\* the keyword arguments BaseAgent.log_interaction passes to it
LogInteractionKeywords ==
    {"user_id", "session_id", "message", "response", "response_time_ms", "agent_name"}

\* Python binds a call made with keyword arguments only when every keyword
\* names a parameter and every parameter without default is given
CallBinds(params, required, keywords) == keywords \subseteq params /\ required \subseteq keywords

\* Logger.log_chat_interaction, called with the given keywords
LogChatInteraction(keywords) ==
    IF CallBinds(LogChatInteractionParams, LogChatInteractionRequired, keywords)
    THEN Returns(None)
    ELSE Raises("TypeError")

\* BaseAgent.log_interaction
LogInteraction(agent, message, response, response_time_ms) ==
    LogChatInteraction(LogInteractionKeywords)

\* the turns of the request a client builds from the context and the message,
\* or the KeyError of a turn without content
RECURSIVE ConvertContext(_, _)
ConvertContext(agent_class, context) ==
    IF context = <<>>
    THEN Returns(<<>>)
    ELSE LET msg == Head(context)
             role == DictGet(msg, "role")
             rest == ConvertContext(agent_class, Tail(context))
             kept == agent_class = "ClaudeAgent" => role \in {<<"user">>, <<"assistant">>}
             turn == CASE agent_class = "ClaudeAgent" ->
                            [role |-> role, content |-> msg.content[1]]
                       [] agent_class = "GeminiAgent" ->
                            [role |-> IF role = <<"user">> THEN <<"user">> ELSE <<"model">>,
                             content |-> msg.content[1]]
                       [] OTHER ->
                            [role |-> IF role = <<"user">> THEN <<"Usuario">> ELSE <<"Asistente">>,
                             content |-> msg.content[1]]
         IN  IF ~kept
             THEN rest
             ELSE IF msg.content = <<>>
             THEN Raises("KeyError")
             ELSE IF rest.exc # "none"
             THEN rest
             ELSE Returns(<<turn>> \o rest.val)

\* Faulty variant of BuildMessages: the new user message is put before the
\* turns of the context.
BuildMessagesNewTurnFirst(agent_class, message, context) ==
    IF agent_class \in {"OpenAIAgent", "GroqAgent"}
    THEN Returns(<<[role |-> <<(<<"user">>)>>, content |-> <<message>>]>> \o context)
    ELSE LET converted == ConvertContext(agent_class, context)
         IN  IF converted.exc # "none"
             THEN converted
             ELSE IF agent_class = "OllamaAgent"
             THEN IF context = <<>>
                  THEN Returns(<<[role |-> EmptyStr, content |-> message]>>)
                  ELSE Returns(<<[role |-> <<"Usuario">>, content |-> message]>>
                               \o converted.val
                               \o <<[role |-> <<"Asistente">>, content |-> EmptyStr]>>)
             ELSE Returns(<<[role |-> <<"user">>, content |-> message]>> \o converted.val)

\* the conversation part of the payload: the messages list of the OpenAI,
\* Groq and Claude clients, the contents list of Gemini, the prompt lines of
\* Ollama
BuildMessages(agent_class, message, context) ==
    IF agent_class \in {"OpenAIAgent", "GroqAgent"}
    THEN Returns(context \o <<[role |-> <<(<<"user">>)>>, content |-> <<message>>]>>)
    ELSE LET converted == ConvertContext(agent_class, context)
         IN  IF converted.exc # "none"
             THEN converted
             ELSE IF agent_class = "OllamaAgent"
             THEN IF context = <<>>
                  THEN Returns(<<[role |-> EmptyStr, content |-> message]>>)
                  ELSE Returns(converted.val
                               \o <<[role |-> <<"Usuario">>, content |-> message],
                                    [role |-> <<"Asistente">>, content |-> EmptyStr]>>)
             ELSE Returns(converted.val \o <<[role |-> <<"user">>, content |-> message]>>)

\* response.raise_for_status(), response.json() and the extraction of the
\* reply text from the parsed body
ExtractText(agent_class, reply, json_error) ==
    IF reply.kind # "response"
    THEN Raises(reply.kind)
    ELSE IF reply.status # "200"
    THEN Raises("HTTPError")
    ELSE CASE reply.body = "unparsable" -> Raises(json_error)
           [] reply.body = "not_object" -> Raises("TypeError")
           [] reply.body = "missing_field" -> Raises("Exception")
           [] reply.body = "empty_list" -> Raises("Exception")
           [] reply.body = "malformed_item" ->
                IF agent_class = "OllamaAgent" THEN Raises("Exception") ELSE Raises("KeyError")
           [] OTHER -> Returns(reply.text)

\* what a get_response call did: how it ended and the number of network
\* requests it issued
Responded(outcome, requests) ==
    [exc |-> outcome.exc, val |-> outcome.val, requests |-> requests]

\* Faulty variant of GetResponseTry: a request that failed is issued a second
\* time before the failure is reported.
GetResponseTryRetries(agent, message, context, reply, json_error) ==
    LET messages == BuildMessages(agent.cls, message, context)
        response_text == ExtractText(agent.cls, reply, json_error)
        logged == LogInteraction(agent, message, response_text.val, 0)
    IN  IF messages.exc # "none"
        THEN Responded(messages, 0)
        ELSE IF response_text.exc # "none"
        THEN Responded(response_text, 2)
        ELSE IF logged.exc # "none"
        THEN Responded(logged, 1)
        ELSE Responded(Returns(Strip(response_text.val)), 1)

\* the try block of get_response
GetResponseTry(agent, message, context, reply, json_error) ==
    LET messages == BuildMessages(agent.cls, message, context)
        response_text == ExtractText(agent.cls, reply, json_error)
        logged == LogInteraction(agent, message, response_text.val, 0)
    IN  IF messages.exc # "none"
        THEN Responded(messages, 0)
        ELSE IF response_text.exc # "none"
        THEN Responded(response_text, 1)
        ELSE IF logged.exc # "none"
        THEN Responded(logged, 1)
        ELSE Responded(Returns(Strip(response_text.val)), 1)

\* that an exception is a RequestException, given what json() raises
IsRequestError(e) ==
    e \in {"ConnectionError", "ConnectTimeout", "ReadTimeout", "HTTPError", "JSONDecodeError"}

\* Faulty variant of GetResponseExcept: the local runner has no clause of its
\* own for a refused connection.
GetResponseExceptNoLocalClause(agent, r) ==
    IF r.exc = "none"
    THEN r
    ELSE IF IsRequestError(r.exc)
    THEN Responded(Returns(<<"Error: ", "Error de conexion con ", ProviderLabel(agent.cls), ": ", r.exc>>),
                   r.requests)
    ELSE Responded(Returns(<<"Error: ", "Error procesando respuesta de ", ProviderLabel(agent.cls), ": ", r.exc>>),
                   r.requests)

\* the except clauses of get_response, in the order of the source
GetResponseExcept(agent, r) ==
    IF r.exc = "none"
    THEN r
    ELSE IF agent.cls = "OllamaAgent" /\ IsConnectionError(r.exc)
    THEN Responded(Returns(<<"Error: ", "Ollama no esta ejecutandose. Inicia Ollama con 'ollama serve'">>),
                   r.requests)
    ELSE IF IsRequestError(r.exc)
    THEN Responded(Returns(<<"Error: ", "Error de conexion con ", ProviderLabel(agent.cls), ": ", r.exc>>),
                   r.requests)
    ELSE Responded(Returns(<<"Error: ", "Error procesando respuesta de ", ProviderLabel(agent.cls), ": ", r.exc>>),
                   r.requests)

\* Faulty variant of GetResponse: only requests' exceptions are handled.
GetResponseRequestErrorsOnly(agent, message, context, reply, json_error) ==
    LET r == GetResponseTry(agent, message, context, reply, json_error)
    IN  IF IsRequestError(r.exc) THEN GetResponseExcept(agent, r) ELSE r

\* get_response of OpenAIAgent, ClaudeAgent, GeminiAgent, OllamaAgent, GroqAgent
GetResponse(agent, message, context, reply, json_error) ==
    GetResponseExcept(agent, GetResponseTry(agent, message, context, reply, json_error))

\* the configs of the clients whose get_response is called
ResponseConfigs ==
    {config \in Configs :
        /\ config.name \in {<<>>, <<<<"x">>>>}
        /\ config.provider \in {<<openai>>, <<ollama>>}
        /\ config.model_name = <<<<"x">>>>
        /\ config.api_key = <<<<"x">>>>}

\* that a returned string starts with "Error:"
StartsWithError(text) == Len(text) > 0 /\ text[1] = "Error: "

(***************************************************************************)
(* AgentManager: the live clients of a session, keyed by id, and the id of *)
(* the default one.                                                        *)
(***************************************************************************)
\* an empty dict
EmptyDict == [k \in {} |-> None]

\* AgentManager.__init__
AgentManagerInit == [active_agents |-> EmptyDict, default_agent |-> None]

\* Faulty variant of AddAgent: an id that is taken keeps its first client.
AddAgentKeepsFirst(agents, agent_id, agent) ==
    [k \in DOMAIN agents \cup {agent_id} |->
        IF k \in DOMAIN agents THEN agents[k] ELSE agent]

\* AgentManager.add_agent: active_agents[agent_id] = agent
AddAgent(agents, agent_id, agent) ==
    [k \in DOMAIN agents \cup {agent_id} |->
        IF k = agent_id THEN agent ELSE agents[k]]

\* AgentManager.get_agent: active_agents.get(agent_id)
GetAgent(agents, agent_id) ==
    IF agent_id \in DOMAIN agents THEN agents[agent_id] ELSE NoAgent

\* AgentManager.remove_agent: the entry is deleted when there is one; the
\* default id is left as it is
RemoveAgent(agents, agent_id) ==
    IF agent_id \in DOMAIN agents
    THEN [k \in DOMAIN agents \ {agent_id} |-> agents[k]]
    ELSE agents

\* Faulty variant of SetDefaultAgent: the id is not looked up.
SetDefaultAgentUnchecked(agents, default, agent_id) == agent_id

\* AgentManager.set_default_agent: the default id after the call
SetDefaultAgent(agents, default, agent_id) ==
    IF agent_id \in DOMAIN agents THEN agent_id ELSE default

\* AgentManager.get_default_agent
GetDefaultAgent(agents, default) ==
    IF Truthy(default) /\ default \in DOMAIN agents
    THEN agents[default]
    ELSE NoAgent

\* AgentManager.list_agents
ListAgents(agents) == [k \in DOMAIN agents |-> GetInfo(agents[k])]

\* AgentManager.clear_agents
ClearAgents == [active_agents |-> EmptyDict, default_agent |-> None]

\* the methods of a client
ClientMethods ==
    {"get_response", "test_connection", "validate_config", "get_info",
     "get_available_models", "estimate_cost"}

\* Faulty variant of InstanceAfter: listing the models makes the client adopt
\* the first listed model.
InstanceAfterAdoptsListedModel(agent, method) ==
    IF method = "get_available_models"
    THEN [agent EXCEPT !.model_name = <<"y">>]
    ELSE agent

\* the attributes of a client after one of its methods has run: no method
\* assigns an attribute, the instance is as __init__ left it
InstanceAfter(agent, method) == agent

\* ids under which a session keeps its clients
AgentIds == {<<"a">>, <<"b">>, EmptyStr}

\* configs of the clients a session keeps: a local-runner config that is
\* complete, and a hosted one without API key
ManagedConfigs ==
    {[name |-> <<(<<"x">>)>>, provider |-> <<ollama>>, model_name |-> <<(<<"x">>)>>,
      api_key |-> <<>>, max_tokens |-> <<>>, temperature |-> <<>>],
     [name |-> <<(<<"x">>)>>, provider |-> <<openai>>, model_name |-> <<(<<"x">>)>>,
      api_key |-> <<>>, max_tokens |-> <<512>>, temperature |-> <<>>]}

\* the clients a session keeps
ManagedAgents ==
    {BaseAgentInit(agent_class, config) :
        agent_class \in {"OpenAIAgent", "OllamaAgent"}, config \in ManagedConfigs}

(***************************************************************************)
(* estimate_cost.  Rates are in millionths of a dollar per 1000 tokens and *)
(* costs in billionths of a dollar, so that (tokens / 1000) * rate is the  *)
(* integer tokens * rate.                                                  *)
(***************************************************************************)
\* the `costs` dict of each hosted client's estimate_cost
CostTable(agent_class) ==
    CASE agent_class = "OpenAIAgent" ->
            (<<"gpt-4o">> :> [input |-> 5000, output |-> 15000])
         @@ (<<"gpt-4o-mini">> :> [input |-> 150, output |-> 600])
         @@ (<<"gpt-4-turbo">> :> [input |-> 10000, output |-> 30000])
         @@ (<<"gpt-3.5-turbo">> :> [input |-> 500, output |-> 1500])
      [] agent_class = "ClaudeAgent" ->
            (<<"claude-3-5-sonnet-20241022">> :> [input |-> 3000, output |-> 15000])
         @@ (<<"claude-3-opus-20240229">> :> [input |-> 15000, output |-> 75000])
         @@ (<<"claude-3-sonnet-20240229">> :> [input |-> 3000, output |-> 15000])
         @@ (<<"claude-3-haiku-20240307">> :> [input |-> 250, output |-> 1250])
      [] agent_class = "GeminiAgent" ->
            (<<"gemini-1.5-pro">> :> [input |-> 3500, output |-> 10500])
         @@ (<<"gemini-1.5-flash">> :> [input |-> 75, output |-> 300])
         @@ (<<"gemini-pro">> :> [input |-> 500, output |-> 1500])
      [] agent_class = "GroqAgent" ->
            (<<"llama-3.1-70b-versatile">> :> [input |-> 590, output |-> 790])
         @@ (<<"llama-3.1-8b-instant">> :> [input |-> 50, output |-> 80])
         @@ (<<"mixtral-8x7b-32768">> :> [input |-> 240, output |-> 240])
         @@ (<<"gemma-7b-it">> :> [input |-> 70, output |-> 70])

\* the model whose rates estimate_cost uses for a model its table lacks
DefaultCostModel(agent_class) ==
    CASE agent_class = "OpenAIAgent" -> <<"gpt-4o-mini">>
      [] agent_class = "ClaudeAgent" -> <<"claude-3-5-sonnet-20241022">>
      [] agent_class = "GeminiAgent" -> <<"gemini-1.5-flash">>
      [] agent_class = "GroqAgent" -> <<"llama-3.1-70b-versatile">>

\* Faulty variant of EstimateCost: the local runner is billed at the rates of
\* the first hosted client's default model.
EstimateCostLocalBilled(agent, message, response) ==
    LET agent_class == IF agent.cls = "OllamaAgent" THEN "OpenAIAgent" ELSE agent.cls
        costs == CostTable(agent_class)
        model_costs == IF agent.model_name \in DOMAIN costs
                       THEN costs[agent.model_name]
                       ELSE costs[DefaultCostModel(agent_class)]
    IN  Returns((Len(message) \div 4) * model_costs.input
                + (Len(response) \div 4) * model_costs.output)

\* Faulty variant of EstimateCost: a model the table lacks is a KeyError.
EstimateCostStrictTable(agent, message, response) ==
    IF agent.cls = "OllamaAgent"
    THEN Returns(0)
    ELSE LET costs == CostTable(agent.cls)
         IN  IF agent.model_name \notin DOMAIN costs
             THEN Raises("KeyError")
             ELSE Returns((Len(message) \div 4) * costs[agent.model_name].input
                          + (Len(response) \div 4) * costs[agent.model_name].output)

\* Faulty variant of EstimateCost: the tokens are the remainder of the length
\* by 4, not its quotient.
EstimateCostRemainderTokens(agent, message, response) ==
    IF agent.cls = "OllamaAgent"
    THEN Returns(0)
    ELSE LET costs == CostTable(agent.cls)
             model_costs == IF agent.model_name \in DOMAIN costs
                            THEN costs[agent.model_name]
                            ELSE costs[DefaultCostModel(agent.cls)]
         IN  Returns((Len(message) % 4) * model_costs.input
                     + (Len(response) % 4) * model_costs.output)

\* estimate_cost(message, response) of the five clients
EstimateCost(agent, message, response) ==
    IF agent.cls = "OllamaAgent"
    THEN Returns(0)
    ELSE LET input_tokens == Len(message) \div 4
             output_tokens == Len(response) \div 4
             costs == CostTable(agent.cls)
             model_costs == IF agent.model_name \in DOMAIN costs
                            THEN costs[agent.model_name]
                            ELSE costs[DefaultCostModel(agent.cls)]
             input_cost == input_tokens * model_costs.input
             output_cost == output_tokens * model_costs.output
         IN  Returns(input_cost + output_cost)

\* the texts whose cost is estimated: only their length matters
CostTexts == StrUpTo({"a"}, MaxCostLen)

\* the models of the priced clients: those of the rate tables, and one that
\* no table has
CostModels ==
    UNION {DOMAIN CostTable(c) : c \in ClientClasses \ {"OllamaAgent"}} \cup {<<"x">>}

\* the configs of the clients whose estimate_cost is called
CostConfigs ==
    [name : {<<(<<"x">>)>>},
     provider : {<<openai>>},
     model_name : Option(CostModels),
     api_key : {<<(<<"x">>)>>}]

(***************************************************************************)
(* get_available_models.  A model name is a str; the literal "models/" of  *)
(* the Gemini listing is kept as one element of it.                        *)
(***************************************************************************)
\* names a listing endpoint reports
ListingNames == {<<"gpt-4o">>, <<"models/", "gemini-pro">>, <<"x">>}

\* the entries of a listing: the name, and whether the entry's
\* supportedGenerationMethods has generateContent
ListingEntries == [name : ListingNames, generative : BOOLEAN]

\* the bodies of a 200 reply: not JSON, a JSON array, a JSON object without
\* the listing field, or one whose listing field holds entries of distinct
\* names
ListingBodies ==
    [kind : {"unparsable", "array", "no_field"}, entries : {{}}]
    \cup [kind : {"listing"},
          entries : {es \in SUBSET ListingEntries :
                        \A e1 \in es, e2 \in es : e1.name = e2.name => e1 = e2}]

\* what the network answers to the listing request
ListingReplies ==
    [kind : {"ConnectionError", "ReadTimeout"}, status : {"none"},
     body : {[kind |-> "unparsable", entries |-> {}]}]
    \cup [kind : {"response"}, status : {"401", "500"},
          body : {[kind |-> "unparsable", entries |-> {}]}]
    \cup [kind : {"response"}, status : {"200"}, body : ListingBodies]

\* any(x in m for x in ['gpt-4', 'gpt-3.5']): of the listed names, "gpt-4o"
\* has one of the two substrings
IsChatModelName(name) == \E i \in 1..Len(name) : name[i] = "gpt-4o"

\* str.replace('models/', '')
WithoutModelsPrefix(name) == SelectSeq(name, LAMBDA e : e # "models/")

\* the place of a name in the order of str
NameRank(name) ==
    CASE name = <<"gemini-pro">> -> 1
      [] name = <<"gpt-4o">> -> 2
      [] name = <<"models/", "gemini-pro">> -> 3
      [] name = <<"x">> -> 4

\* sorted(names), for names that are all different
RECURSIVE Sorted(_)
Sorted(names) ==
    IF names = {}
    THEN <<>>
    ELSE LET first == CHOOSE n \in names : \A m \in names : NameRank(n) <= NameRank(m)
         IN  <<first>> \o Sorted(names \ {first})

\* the fixed list each client returns when it has no listing
FallbackModels(agent_class) ==
    CASE agent_class = "OpenAIAgent" ->
            <<(<<"gpt-4o">>), <<"gpt-4o-mini">>, <<"gpt-4-turbo">>, <<"gpt-3.5-turbo">>>>
      [] agent_class = "ClaudeAgent" ->
            <<(<<"claude-3-5-sonnet-20241022">>), <<"claude-3-opus-20240229">>,
              <<"claude-3-sonnet-20240229">>, <<"claude-3-haiku-20240307">>>>
      [] agent_class = "GeminiAgent" ->
            <<(<<"gemini-1.5-pro">>), <<"gemini-1.5-flash">>, <<"gemini-pro">>>>
      [] agent_class = "OllamaAgent" ->
            <<(<<"llama3.1">>), <<"codestral">>, <<"mistral">>, <<"phi3">>, <<"qwen2.5">>>>
      [] agent_class = "GroqAgent" ->
            <<(<<"llama-3.1-70b-versatile">>), <<"llama-3.1-8b-instant">>,
              <<"mixtral-8x7b-32768">>, <<"gemma-7b-it">>>>

\* the number of requests get_available_models issues: ClaudeAgent has no
\* listing endpoint
GetAvailableModelsRequests(agent) == IF agent.cls = "ClaudeAgent" THEN 0 ELSE 1

\* the try block of get_available_models
GetAvailableModelsTry(agent, reply) ==
    IF agent.cls = "ClaudeAgent"
    THEN Returns(FallbackModels(agent.cls))
    ELSE IF reply.kind # "response"
    THEN Raises(reply.kind)
    ELSE IF reply.status # "200"
    THEN Returns(FallbackModels(agent.cls))
    ELSE IF reply.body.kind = "unparsable"
    THEN Raises("JSONDecodeError")
    ELSE IF agent.cls = "OllamaAgent"
    THEN \* data.get('models', []): a list has no get, an absent field is []
         IF reply.body.kind = "array"
         THEN Raises("AttributeError")
         ELSE Returns(Sorted({e.name : e \in reply.body.entries}))
    ELSE IF reply.body.kind # "listing"
    THEN Returns(FallbackModels(agent.cls))
    ELSE IF agent.cls = "OpenAIAgent"
    THEN Returns(Sorted({e.name : e \in {l \in reply.body.entries : IsChatModelName(l.name)}}))
    ELSE IF agent.cls = "GeminiAgent"
    THEN Returns(Sorted({WithoutModelsPrefix(e.name) :
                            e \in {l \in reply.body.entries : l.generative}}))
    ELSE Returns(Sorted({e.name : e \in reply.body.entries}))

\* get_available_models: `except Exception` returns the fixed list
GetAvailableModels(agent, reply) ==
    LET r == GetAvailableModelsTry(agent, reply)
    IN  IF r.exc # "none" THEN Returns(FallbackModels(agent.cls)) ELSE r

(***************************************************************************)
(* The request of get_response.  A payload is a dict: a function of its    *)
(* keys; {**a, **b} is b @@ a, the later entries winning.                  *)
(***************************************************************************)
\* Faulty variant of BuildPayload: default_params is spread before the
\* built-in fields, which win.
BuildPayloadBuiltinsLast(agent, message, context) ==
    LET messages == BuildMessages(agent.cls, message, context)
    IN  IF messages.exc # "none"
        THEN messages
        ELSE CASE agent.cls = "GeminiAgent" ->
                    Returns(("contents" :> messages.val)
                            @@ ("generationConfig" :>
                                  (("temperature" :> agent.temperature)
                                   @@ ("maxOutputTokens" :> agent.max_tokens)
                                   @@ agent.default_params)))
               [] agent.cls = "OllamaAgent" ->
                    Returns(("model" :> agent.model_name)
                            @@ ("prompt" :> messages.val)
                            @@ ("stream" :> FALSE)
                            @@ ("options" :>
                                  (("temperature" :> agent.temperature)
                                   @@ ("num_predict" :> agent.max_tokens)
                                   @@ agent.default_params)))
               [] OTHER ->
                    Returns(("model" :> agent.model_name)
                            @@ ("messages" :> messages.val)
                            @@ ("max_tokens" :> agent.max_tokens)
                            @@ ("temperature" :> agent.temperature)
                            @@ agent.default_params)

\* the payload dict get_response posts: the built-in fields, then
\* **self.default_params (in the payload itself for OpenAI, Groq and Claude,
\* in generationConfig for Gemini, in options for Ollama)
BuildPayload(agent, message, context) ==
    LET messages == BuildMessages(agent.cls, message, context)
    IN  IF messages.exc # "none"
        THEN messages
        ELSE CASE agent.cls = "GeminiAgent" ->
                    Returns(("contents" :> messages.val)
                            @@ ("generationConfig" :>
                                  (agent.default_params
                                   @@ ("temperature" :> agent.temperature)
                                   @@ ("maxOutputTokens" :> agent.max_tokens))))
               [] agent.cls = "OllamaAgent" ->
                    Returns(("model" :> agent.model_name)
                            @@ ("prompt" :> messages.val)
                            @@ ("stream" :> FALSE)
                            @@ ("options" :>
                                  (agent.default_params
                                   @@ ("temperature" :> agent.temperature)
                                   @@ ("num_predict" :> agent.max_tokens))))
               [] OTHER ->
                    Returns(agent.default_params
                            @@ ("model" :> agent.model_name)
                            @@ ("messages" :> messages.val)
                            @@ ("max_tokens" :> agent.max_tokens)
                            @@ ("temperature" :> agent.temperature))

\* the turns of a conversation, and a turn with a role outside the enum
RequestTurns ==
    [role : {<<(<<"user">>)>>, <<(<<"assistant">>)>>},
     content : {<<(<<"c">>)>>, <<(<<"d">>)>>}]
    \cup {[role |-> <<(<<"system">>)>>, content |-> <<(<<"c">>)>>]}

\* the context lists of the calls whose request is observed
RequestContexts == ListsUpTo(RequestTurns, MaxTurns)

\* the default_params dicts of the configs
DefaultParams ==
    {EmptyDict,
     "temperature" :> 3,
     "model" :> <<"y">>,
     ("max_tokens" :> 64) @@ ("top_p" :> 9),
     "maxOutputTokens" :> 64,
     "num_predict" :> 64,
     "contents" :> <<>>}

\* the configs of the clients whose request is observed
RequestConfigs ==
    [name : {<<(<<"x">>)>>},
     provider : {<<openai>>},
     model_name : {<<(<<"x">>)>>},
     api_key : {<<(<<"x">>)>>},
     default_params : Option(DefaultParams)]

\* what the completion call of an observed request comes back with
RequestReplies ==
    {reply \in CompletionReplies :
        \/ reply.kind \in {"ConnectionError", "ReadTimeout"}
        \/ reply.status = "500"
        \/ reply.body = "reply" /\ reply.text = <<"a">>}

(***************************************************************************)
(* BeamComparison: one prompt sent to every checked model, one worker      *)
(* thread per model, and a coordinator thread that joins the workers.      *)
(***************************************************************************)
\* model_checkboxes: the agent_data record behind each checkbox, in the order
\* the checkboxes were created; the second has no API key
ModelCheckboxes ==
    <<[id |-> "m1", name |-> <<"x">>, provider |-> ollama, model_name |-> <<"x">>,
       api_key |-> None, api_url |-> <<"u">>],
      [id |-> "m2", name |-> <<"x">>, provider |-> openai, model_name |-> <<"x">>,
       api_key |-> None, api_url |-> <<"u">>]>>

\* the ids of the checkboxes
BeamIds == {ModelCheckboxes[i].id : i \in DOMAIN ModelCheckboxes}

\* the agent_data of a checkbox
AgentData(agent_id) ==
    ModelCheckboxes[CHOOSE i \in DOMAIN ModelCheckboxes : ModelCheckboxes[i].id = agent_id]

\* what the prompt textbox holds when Send is clicked
Prompts == {EmptyStr, <<" ">>, <<"h">>}

\* the comparisons a session starts, named in the order of their Send clicks
BeamRequests == {1, 2}

\* what the completion call of a worker comes back with
BeamReplies ==
    {reply \in CompletionReplies :
        \/ reply.kind = "ReadTimeout"
        \/ reply.body = "reply" /\ reply.text = <<"a">>}

\* the text of the status label, with the numbers it shows
Status(text, counts) == [text |-> text, counts |-> counts]

\* the ids of the checked models, in the order of model_checkboxes
SelectedModels(ids) ==
    LET selected == SelectSeq(ModelCheckboxes, LAMBDA agent_data : agent_data.id \in ids)
    IN  [i \in DOMAIN selected |-> selected[i].id]

\* the config process_single_request builds from an agent_data record
BeamConfig(agent_data) ==
    [name |-> <<agent_data.name>>,
     provider |-> <<agent_data.provider>>,
     model_name |-> <<agent_data.model_name>>,
     api_key |-> <<agent_data.api_key>>,
     api_url |-> <<agent_data.api_url>>,
     max_tokens |-> <<DefaultMaxTokens>>,
     temperature |-> <<DefaultTemperature>>,
     default_params |-> <<[k \in {} |-> None]>>]

\* the entry process_single_request stores when its try block raises
FailedResponse(error) == [response |-> None, success |-> FALSE, error |-> <<error>>]

\* process_single_request: the entry it stores in current_responses (the
\* response time and the token count of an entry are left out)
ProcessSingleRequest(registry, agent_data, prompt, reply) ==
    LET agent == CreateAgent(registry, agent_data.provider, BeamConfig(agent_data), FALSE).val
    IN  IF agent = NoAgent
        THEN FailedResponse("No se pudo crear el agente")
        ELSE IF agent_data.provider # ollama /\ ~Truthy(agent_data.api_key)
        THEN FailedResponse("API Key no configurada")
        ELSE [response |-> GetResponse(agent, prompt, <<>>, reply, "JSONDecodeError").val,
              success |-> TRUE,
              error |-> None]

\* Faulty variant of JoinTargets: only the first worker is joined.
JoinTargetsFirstOnly(selected_models) == <<selected_models[1]>>

\* the threads list of process_beam_requests: the workers it joins, by the
\* model each was started for
JoinTargets(selected_models) == selected_models

\* the coordinator thread of a comparison
Coordinator(request, prompt, selected_models, pc, i) ==
    [kind |-> "process_beam_requests", request |-> request, agent_id |-> "",
     prompt |-> prompt, selected_models |-> selected_models, pc |-> pc, i |-> i]

\* the worker thread of one model of a comparison
Worker(request, prompt, agent_id, pc) ==
    [kind |-> "process_single_request", request |-> request, agent_id |-> agent_id,
     prompt |-> prompt, selected_models |-> <<>>, pc |-> pc, i |-> 0]

(***************************************************************************)
(* The state machine: the class-level registry of the factory, and the     *)
(* call a caller has made and not yet let go of (its arguments and what it *)
(* did).  A caller makes one call at a time: the next call starts once the *)
(* result of the previous one has been dropped.                            *)
(***************************************************************************)
\* the configuration dicts of the clients asked for get_info(): every field
\* absent or present, temperature in tenths
InfoConfigs ==
    [name : Option({EmptyStr, <<"x">>}),
     provider : Option({openai, ollama}),
     model_name : Option({<<"x">>}),
     api_key : Option({EmptyStr, <<"x">>}),
     max_tokens : Option({512}),
     temperature : Option({0, 20})]

\* provider names under which callers register classes at runtime
RegisteredAtRuntime == {custom, Custom}

\* the probe inputs of a test_agent_connection call: the reply the network
\* gives a built-in client, or the behaviour of a class registered at runtime
ProbeInputs ==
    (ProbeReplies \X {"success"})
    \cup ({[kind |-> "response", status |-> "200", parsable |-> TRUE, models |-> {}]}
          \X CustomProbeBehaviours)

\* no call in progress
Idle == [op |-> "idle"]

Init ==
    /\ AGENT_CLASSES = InitialAgentClasses
    /\ last = Idle
    /\ active_agents = AgentManagerInit.active_agents
    /\ default_agent = AgentManagerInit.default_agent
    /\ clients = [i \in {} |-> None]
    /\ threads = {}
    /\ after_queue = <<>>
    /\ checked = {}
    /\ send_enabled = TRUE
    /\ current_responses = [i \in {} |-> None]
    /\ status_label = Status("", <<>>)
    /\ requests_started = 0
    /\ chat_history = <<>>

\* a caller constructs a client directly and asks it validate_config()
ValidateConfigCall ==
    /\ last = Idle
    /\ \E agent_class \in ClientClasses, config \in Configs :
        LET agent == BaseAgentInit(agent_class, config)
        IN  /\ last' = [op |-> "validate_config", agent |-> agent,
                        ret |-> ValidateConfig(agent)]
            /\ UNCHANGED <<AGENT_CLASSES, active_agents, default_agent, uiVars>>

\* a caller holding a client asks it get_response(message, context); the
\* network reply is an input of the call only when the call issues a request,
\* and the class of json()'s error only when the body is not JSON
GetResponseCall ==
    /\ last = Idle
    /\ \E agent_class \in ClientClasses, config \in ResponseConfigs, message \in Messages,
          context \in Contexts, reply \in CompletionReplies, json_error \in JsonErrors :
          LET agent == BaseAgentInit(agent_class, config)
              r == GetResponse(agent, message, context, reply, json_error)
          IN  /\ reply.body # "unparsable" => json_error = "JSONDecodeError"
              /\ r.requests = 0 => reply.kind = "ConnectionError"
              /\ last' = [op |-> "get_response", agent |-> agent, message |-> message,
                          context |-> context,
                          received |-> IF r.requests = 0 THEN <<>> ELSE <<reply>>,
                          json_error |-> json_error,
                          result |-> r]
              /\ UNCHANGED <<AGENT_CLASSES, active_agents, default_agent, uiVars>>

\* AgentFactory.create_agent(provider, config, validate_api_key)
CreateAgentCall ==
    /\ last = Idle
    /\ \E provider \in ProviderArgs, config \in Configs, validate_api_key \in BOOLEAN :
        /\ last' = [op |-> "create_agent", provider |-> provider, config |-> config,
                    validate_api_key |-> validate_api_key,
                    result |-> CreateAgent(AGENT_CLASSES, provider, config, validate_api_key)]
        /\ UNCHANGED <<AGENT_CLASSES, active_agents, default_agent, uiVars>>

\* AgentFactory.test_agent_connection(provider, config); the probe reply is an
\* input of the call only when the call issues a request
TestAgentConnectionCall ==
    /\ last = Idle
    /\ \E provider \in ProviderArgs, config \in Configs, probe \in ProbeInputs :
        LET r == TestAgentConnection(AGENT_CLASSES, provider, config, probe[1], probe[2])
        IN  /\ r.requests = 0 => probe = <<[kind |-> "response", status |-> "200",
                                           parsable |-> TRUE, models |-> {}], "success">>
            /\ last' = [op |-> "test_agent_connection", provider |-> provider,
                        config |-> config,
                        received |-> IF r.requests = 0 THEN <<>> ELSE <<probe[1]>>,
                        result |-> r]
            /\ UNCHANGED <<AGENT_CLASSES, active_agents, default_agent, uiVars>>

\* AgentFactory.register_agent_class(provider, agent_class)
RegisterAgentClassCall ==
    /\ last = Idle
    /\ \E provider \in RegisteredAtRuntime, agent_class \in RegistrableClasses :
        LET r == RegisterAgentClass(AGENT_CLASSES, provider, agent_class)
        IN  /\ AGENT_CLASSES' = IF r.exc = "none" THEN r.val ELSE AGENT_CLASSES
            /\ last' = [op |-> "register_agent_class", provider |-> provider,
                        agent_class |-> agent_class, exc |-> r.exc]
            /\ UNCHANGED <<active_agents, default_agent, uiVars>>

\* a caller constructs a client directly and asks it get_info()
GetInfoCall ==
    /\ last = Idle
    /\ \E agent_class \in ClientClasses, config \in InfoConfigs :
        LET agent == BaseAgentInit(agent_class, config)
        IN  /\ last' = [op |-> "get_info", agent |-> agent, ret |-> GetInfo(agent)]
            /\ UNCHANGED <<AGENT_CLASSES, active_agents, default_agent, uiVars>>

\* a caller holding a client asks it estimate_cost(message, response)
EstimateCostCall ==
    /\ last = Idle
    /\ \E agent_class \in ClientClasses, config \in CostConfigs,
          message \in CostTexts, response \in CostTexts :
        LET agent == BaseAgentInit(agent_class, config)
        IN  /\ last' = [op |-> "estimate_cost", agent |-> agent, message |-> message,
                        response |-> response,
                        result |-> EstimateCost(agent, message, response)]
            /\ UNCHANGED <<AGENT_CLASSES, active_agents, default_agent, uiVars>>

\* a caller holding a client asks it get_available_models(); the network reply
\* is an input of the call only when the call issues a request
GetAvailableModelsCall ==
    /\ last = Idle
    /\ \E agent_class \in ClientClasses, config \in ResponseConfigs, reply \in ListingReplies :
        LET agent == BaseAgentInit(agent_class, config)
            requests == GetAvailableModelsRequests(agent)
        IN  /\ requests = 0 => reply.kind = "ConnectionError"
            /\ last' = [op |-> "get_available_models", agent |-> agent,
                        received |-> IF requests = 0 THEN <<>> ELSE <<reply>>,
                        result |-> GetAvailableModels(agent, reply)]
            /\ UNCHANGED <<AGENT_CLASSES, active_agents, default_agent, uiVars>>

\* a caller holding a client asks it test_connection()
TestConnectionCall ==
    /\ last = Idle
    /\ \E agent_class \in ClientClasses, config \in ResponseConfigs, reply \in ProbeReplies :
        LET agent == BaseAgentInit(agent_class, config)
        IN  /\ last' = [op |-> "test_connection", agent |-> agent, received |-> reply,
                        result |-> TestConnection(agent, reply, "success")]
            /\ UNCHANGED <<AGENT_CLASSES, active_agents, default_agent, uiVars>>

\* the caller is done with the result of its call
Discard ==
    /\ last # Idle
    /\ last' = Idle
    /\ UNCHANGED <<AGENT_CLASSES, active_agents, default_agent, uiVars>>

Next ==
    \/ Discard
    \/ GetResponseCall
    \/ ValidateConfigCall
    \/ CreateAgentCall
    \/ TestAgentConnectionCall
    \/ RegisterAgentClassCall
    \/ GetInfoCall
    \/ EstimateCostCall
    \/ GetAvailableModelsCall
    \/ TestConnectionCall

Spec == Init /\ [][Next]_vars

(***************************************************************************)
(* The session's AgentManager: one action per method, and the calls made   *)
(* on the clients it keeps.                                                *)
(***************************************************************************)
AddAgentCall ==
    \E agent_id \in AgentIds, agent \in ManagedAgents :
        /\ active_agents' = AddAgent(active_agents, agent_id, agent)
        /\ last' = [op |-> "add_agent", agent_id |-> agent_id, agent |-> agent]
        /\ UNCHANGED <<AGENT_CLASSES, default_agent, uiVars>>

GetAgentCall ==
    \E agent_id \in AgentIds :
        /\ last' = [op |-> "get_agent", agent_id |-> agent_id,
                    ret |-> GetAgent(active_agents, agent_id)]
        /\ UNCHANGED <<AGENT_CLASSES, active_agents, default_agent, uiVars>>

RemoveAgentCall ==
    \E agent_id \in AgentIds :
        /\ active_agents' = RemoveAgent(active_agents, agent_id)
        /\ last' = [op |-> "remove_agent", agent_id |-> agent_id]
        /\ UNCHANGED <<AGENT_CLASSES, default_agent, uiVars>>

SetDefaultAgentCall ==
    \E agent_id \in AgentIds :
        /\ default_agent' = SetDefaultAgent(active_agents, default_agent, agent_id)
        /\ last' = [op |-> "set_default_agent", agent_id |-> agent_id]
        /\ UNCHANGED <<AGENT_CLASSES, active_agents, uiVars>>

GetDefaultAgentCall ==
    /\ last' = [op |-> "get_default_agent",
                ret |-> GetDefaultAgent(active_agents, default_agent)]
    /\ UNCHANGED <<AGENT_CLASSES, active_agents, default_agent, uiVars>>

ListAgentsCall ==
    /\ last' = [op |-> "list_agents", ret |-> ListAgents(active_agents)]
    /\ UNCHANGED <<AGENT_CLASSES, active_agents, default_agent, uiVars>>

ClearAgentsCall ==
    /\ active_agents' = ClearAgents.active_agents
    /\ default_agent' = ClearAgents.default_agent
    /\ last' = [op |-> "clear_agents"]
    /\ UNCHANGED <<AGENT_CLASSES, uiVars>>

\* a caller takes a client from the manager and calls one of its methods
UseAgentCall ==
    \E agent_id \in DOMAIN active_agents, method \in ClientMethods :
        /\ active_agents' =
              [active_agents EXCEPT ![agent_id] = InstanceAfter(@, method)]
        /\ last' = [op |-> "use_agent", agent_id |-> agent_id, method |-> method]
        /\ UNCHANGED <<AGENT_CLASSES, default_agent, uiVars>>

NextManager ==
    \/ AddAgentCall
    \/ GetAgentCall
    \/ RemoveAgentCall
    \/ SetDefaultAgentCall
    \/ GetDefaultAgentCall
    \/ ListAgentsCall
    \/ ClearAgentsCall
    \/ UseAgentCall

SpecManager == Init /\ [][NextManager]_vars

(***************************************************************************)
(* get_response, with the request it posts in view.                        *)
(***************************************************************************)
\* a caller holding a client asks it get_response(message, context); the
\* request is posted when the payload could be built
GetResponseRequestCall ==
    /\ last = Idle
    /\ \E agent_class \in ClientClasses, config \in RequestConfigs, message \in Messages,
          context \in RequestContexts, reply \in RequestReplies :
          LET agent == BaseAgentInit(agent_class, config)
              payload == BuildPayload(agent, message, context)
              r == GetResponse(agent, message, context, reply, "JSONDecodeError")
          IN  /\ r.requests = 0 => reply.kind = "ConnectionError"
              /\ last' = [op |-> "get_response", agent |-> agent, message |-> message,
                          context |-> context,
                          posted |-> IF payload.exc = "none" THEN <<payload.val>> ELSE <<>>,
                          received |-> IF r.requests = 0 THEN <<>> ELSE <<reply>>,
                          result |-> r]
              /\ UNCHANGED <<AGENT_CLASSES, active_agents, default_agent, uiVars>>

NextRequest ==
    \/ Discard
    \/ GetResponseRequestCall

SpecRequest == Init /\ [][NextRequest]_vars

(***************************************************************************)
(* Concurrent callers: two client instances, and one thread per instance   *)
(* running get_response step by step.  A step reads the instance and the   *)
(* caller's context list; what it computes is local to the thread.         *)
(***************************************************************************)
\* the instances concurrent callers hold
ConcurrentClients == {1, 2}

\* the classes of those instances
ConcurrentClasses == {"OpenAIAgent", "OllamaAgent"}

\* the config of those instances
ConcurrentConfig ==
    [name |-> <<(<<"x">>)>>, provider |-> <<openai>>, model_name |-> <<(<<"x">>)>>,
     api_key |-> <<(<<"x">>)>>]

\* the context lists of the concurrent calls
ConcurrentContexts ==
    {<<>>, <<[role |-> <<(<<"user">>)>>, content |-> <<(<<"c">>)>>]>>}

\* what the completion call of a concurrent caller comes back with
ConcurrentReplies ==
    {reply \in CompletionReplies :
        \/ reply.kind = "ReadTimeout"
        \/ reply.status = "500"
        \/ reply.body = "reply" /\ reply.text \in {<<"a">>, <<"a", " ">>}}

\* the thread running get_response on a client
CallOn(client) == {t \in threads : t.kind = "get_response" /\ t.client = client}

\* a caller constructs a client
ConstructClient ==
    \E client \in ConcurrentClients \ DOMAIN clients, agent_class \in ConcurrentClasses :
        /\ clients' = [i \in DOMAIN clients \cup {client} |->
                          IF i = client
                          THEN BaseAgentInit(agent_class, ConcurrentConfig)
                          ELSE clients[i]]
        /\ UNCHANGED <<AGENT_CLASSES, last, active_agents, default_agent, threads,
                       after_queue, beamVars, chat_history>>

\* a thread enters get_response(message, context) of a client no other
\* thread is using
GetResponseEnter ==
    \E client \in DOMAIN clients, message \in Messages, context \in ConcurrentContexts :
        /\ CallOn(client) = {}
        /\ threads' = threads \cup
              {[kind |-> "get_response", client |-> client, pc |-> "build",
                message |-> message, context |-> context, supplied |-> context,
                posted |-> <<>>, received |-> <<>>,
                outcome |-> Responded(Returns(EmptyStr), 0)]}
        /\ UNCHANGED <<AGENT_CLASSES, last, active_agents, default_agent, clients,
                       after_queue, beamVars, chat_history>>

\* the thread builds its payload and posts it
GetResponsePost ==
    \E t \in threads :
        /\ t.kind = "get_response" /\ t.pc = "build"
        /\ LET payload == BuildPayload(clients[t.client], t.message, t.context)
           IN  threads' = (threads \ {t}) \cup
                  {IF payload.exc = "none"
                   THEN [t EXCEPT !.pc = "waiting", !.posted = <<payload.val>>]
                   ELSE [t EXCEPT !.pc = "except", !.outcome = Responded(payload, 0)]}
        /\ clients' = [clients EXCEPT ![t.client] = InstanceAfter(@, "get_response")]
        /\ UNCHANGED <<AGENT_CLASSES, last, active_agents, default_agent,
                       after_queue, beamVars, chat_history>>

\* the reply to the posted request arrives; the thread checks the status,
\* parses the body and extracts the text
GetResponseReceive ==
    \E t \in threads, reply \in ConcurrentReplies :
        /\ t.kind = "get_response" /\ t.pc = "waiting"
        /\ LET response_text == ExtractText(clients[t.client].cls, reply, "JSONDecodeError")
           IN  threads' = (threads \ {t}) \cup
                  {IF response_text.exc = "none"
                   THEN [t EXCEPT !.pc = "log", !.received = <<reply>>,
                                  !.outcome = Responded(response_text, 1)]
                   ELSE [t EXCEPT !.pc = "except", !.received = <<reply>>,
                                  !.outcome = Responded(response_text, 1)]}
        /\ UNCHANGED <<AGENT_CLASSES, last, active_agents, default_agent, clients,
                       after_queue, beamVars, chat_history>>

\* the thread logs the interaction and returns the stripped text
GetResponseLog ==
    \E t \in threads :
        /\ t.kind = "get_response" /\ t.pc = "log"
        /\ LET logged == LogInteraction(clients[t.client], t.message, t.outcome.val, 0)
           IN  threads' = (threads \ {t}) \cup
                  {IF logged.exc = "none"
                   THEN [t EXCEPT !.pc = "done",
                                  !.outcome = Responded(Returns(Strip(t.outcome.val)), 1)]
                   ELSE [t EXCEPT !.pc = "except", !.outcome = Responded(logged, 1)]}
        /\ UNCHANGED <<AGENT_CLASSES, last, active_agents, default_agent, clients,
                       after_queue, beamVars, chat_history>>

\* the except clauses of get_response
GetResponseHandle ==
    \E t \in threads :
        /\ t.kind = "get_response" /\ t.pc = "except"
        /\ threads' = (threads \ {t}) \cup
              {[t EXCEPT !.pc = "done",
                         !.outcome = GetResponseExcept(clients[t.client], t.outcome)]}
        /\ UNCHANGED <<AGENT_CLASSES, last, active_agents, default_agent, clients,
                       after_queue, beamVars, chat_history>>

\* the caller takes the value get_response returned
GetResponseLeave ==
    \E t \in threads :
        /\ t.kind = "get_response" /\ t.pc = "done"
        /\ threads' = threads \ {t}
        /\ UNCHANGED <<AGENT_CLASSES, last, active_agents, default_agent, clients,
                       after_queue, beamVars, chat_history>>

NextConcurrent ==
    \/ ConstructClient
    \/ GetResponseEnter
    \/ GetResponsePost
    \/ GetResponseReceive
    \/ GetResponseLog
    \/ GetResponseHandle
    \/ GetResponseLeave

SpecConcurrent == Init /\ [][NextConcurrent]_vars

(***************************************************************************)
(* The comparison view.  Button and checkbox commands and after(0, ...)    *)
(* callbacks run on the UI thread, one at a time; the coordinator and the  *)
(* workers run on threads of their own.                                    *)
(***************************************************************************)
\* the user toggles a checkbox: on_model_selection_changed
OnModelSelectionChanged ==
    \E agent_id \in BeamIds :
        LET now == IF agent_id \in checked THEN checked \ {agent_id} ELSE checked \cup {agent_id}
            selected_count == Cardinality(now)
        IN  /\ checked' = now
            /\ send_enabled' = (selected_count # 0)
            /\ status_label' = IF selected_count = 0
                               THEN Status("Selecciona al menos un modelo", <<>>)
                               ELSE Status("modelo(s) seleccionado(s)", <<selected_count>>)
            /\ UNCHANGED <<coreVars, clients, threads, after_queue, current_responses,
                           requests_started, chat_history>>

\* the user clicks the enabled Send button: send_beam_request
SendBeamRequest ==
    \E text \in Prompts :
        LET prompt == Strip(text)
            selected_models == SelectedModels(checked)
        IN  /\ send_enabled
            /\ IF prompt = EmptyStr
               THEN /\ status_label' = Status("Ingresa un prompt", <<>>)
                    /\ UNCHANGED <<send_enabled, current_responses, threads, requests_started>>
               ELSE IF selected_models = <<>>
               THEN /\ status_label' = Status("Selecciona al menos un modelo", <<>>)
                    /\ UNCHANGED <<send_enabled, current_responses, threads, requests_started>>
               ELSE /\ requests_started + 1 \in BeamRequests
                    /\ send_enabled' = FALSE
                    /\ status_label' = Status("Enviando a modelos...", <<>>)
                    /\ current_responses' = EmptyDict
                    /\ requests_started' = requests_started + 1
                    /\ threads' = threads \cup
                          {Coordinator(requests_started + 1, prompt, selected_models, "start", 1)}
            /\ UNCHANGED <<coreVars, clients, after_queue, checked, chat_history>>

\* the user clicks the Clear button: clear_responses
ClearResponses ==
    /\ current_responses' = EmptyDict
    /\ UNCHANGED <<coreVars, clients, threads, after_queue, checked, send_enabled,
                   status_label, requests_started, chat_history>>

\* process_beam_requests starts the worker of the next selected model
ProcessBeamRequestsStart ==
    \E t \in threads :
        /\ t.kind = "process_beam_requests" /\ t.pc = "start"
        /\ threads' = (threads \ {t}) \cup
              {Worker(t.request, t.prompt, t.selected_models[t.i], "running"),
               IF t.i = Len(t.selected_models)
               THEN [t EXCEPT !.pc = "join", !.i = 1]
               ELSE [t EXCEPT !.i = t.i + 1]}
        /\ UNCHANGED <<coreVars, clients, after_queue, beamVars, chat_history>>

\* a worker runs process_single_request to its end
ProcessSingleRequestRun ==
    \E t \in threads, reply \in BeamReplies :
        /\ t.kind = "process_single_request" /\ t.pc = "running"
        /\ LET entry == ProcessSingleRequest(AGENT_CLASSES, AgentData(t.agent_id), t.prompt, reply)
           IN  \* request: the comparison the entry was made for, kept for the
               \* properties below; the source's entry has no such key
               current_responses' =
                   [id \in DOMAIN current_responses \cup {t.agent_id} |->
                       IF id = t.agent_id
                       THEN [response |-> entry.response, success |-> entry.success,
                             error |-> entry.error, request |-> t.request]
                       ELSE current_responses[id]]
        /\ threads' = (threads \ {t}) \cup {[t EXCEPT !.pc = "done"]}
        /\ UNCHANGED <<coreVars, clients, after_queue, checked, send_enabled, status_label,
                       requests_started, chat_history>>

\* process_beam_requests joins the next thread of its list, once it has ended
ProcessBeamRequestsJoin ==
    \E t \in threads :
        /\ t.kind = "process_beam_requests" /\ t.pc = "join"
        /\ t.i <= Len(JoinTargets(t.selected_models))
        /\ LET joined == Worker(t.request, t.prompt, JoinTargets(t.selected_models)[t.i], "done")
           IN  /\ joined \in threads
               /\ threads' = (threads \ {t, joined}) \cup {[t EXCEPT !.i = t.i + 1]}
        /\ UNCHANGED <<coreVars, clients, after_queue, beamVars, chat_history>>

\* process_beam_requests, every join done, schedules on_all_responses_complete
\* on the UI thread and ends (request and selected_models of the queued
\* callback: the comparison it was scheduled for, kept for the properties)
ProcessBeamRequestsSchedule ==
    \E t \in threads :
        /\ t.kind = "process_beam_requests" /\ t.pc = "join"
        /\ t.i > Len(JoinTargets(t.selected_models))
        /\ after_queue' = Append(after_queue,
              [fn |-> "on_all_responses_complete", request |-> t.request,
               selected_models |-> t.selected_models])
        /\ threads' = threads \ {t}
        /\ UNCHANGED <<coreVars, clients, beamVars, chat_history>>

\* the UI thread runs the next scheduled on_all_responses_complete
OnAllResponsesComplete ==
    /\ after_queue # <<>>
    /\ Head(after_queue).fn = "on_all_responses_complete"
    /\ after_queue' = Tail(after_queue)
    /\ send_enabled' = TRUE
    /\ LET successful_count ==
               Cardinality({id \in DOMAIN current_responses : current_responses[id].success})
           total_count == Cardinality(DOMAIN current_responses)
       IN  status_label' = Status("Completado", <<successful_count, total_count>>)
    /\ UNCHANGED <<coreVars, clients, threads, checked, current_responses,
                   requests_started, chat_history>>

NextBeam ==
    \/ OnModelSelectionChanged
    \/ SendBeamRequest
    \/ ClearResponses
    \/ ProcessBeamRequestsStart
    \/ ProcessSingleRequestRun
    \/ ProcessBeamRequestsJoin
    \/ ProcessBeamRequestsSchedule
    \/ OnAllResponsesComplete

SpecBeam == Init /\ [][NextBeam]_vars

(***************************************************************************)
(* The network calls of a client, with the time they may take.  A caller   *)
(* invokes get_response, test_connection or get_available_models; the call *)
(* issues its request with the timeout the source passes to requests and   *)
(* blocks until the request completes or the timeout expires.  The server  *)
(* is free never to answer; the clock is not free to stop.                 *)
(***************************************************************************)
\* the operations of a client that use the network
TimedOperations == {"get_response", "test_connection", "get_available_models"}

\* Faulty variant of RequestTimeout: the generation request of the local
\* runner is posted without a timeout.
RequestTimeoutNoneForGeneration(agent_class, op) ==
    IF op = "get_response"
    THEN IF agent_class = "OllamaAgent" THEN <<>> ELSE <<30>>
    ELSE IF op = "test_connection"
    THEN IF agent_class = "OllamaAgent" THEN <<5>> ELSE <<10>>
    ELSE <<10>>

\* the timeout= argument of the request an operation issues, in seconds;
\* <<>> stands for a request without one, which waits without bound
RequestTimeout(agent_class, op) ==
    IF op = "get_response"
    THEN IF agent_class = "OllamaAgent" THEN <<60>> ELSE <<30>>
    ELSE IF op = "test_connection"
    THEN IF agent_class = "OllamaAgent" THEN <<5>> ELSE <<10>>
    ELSE <<10>>

\* network requests an operation issues
RequestsOf(agent, op) ==
    IF op = "get_response"
    THEN 1
    ELSE IF op = "test_connection"
    THEN TestConnectionRequests(agent)
    ELSE GetAvailableModelsRequests(agent)

\* what the network answers to the request of an operation, when it answers
AnswersTo(op) ==
    IF op = "get_response"
    THEN {reply \in ConcurrentReplies : reply.kind # "ReadTimeout"}
    ELSE IF op = "test_connection"
    THEN {reply \in ProbeReplies : reply.kind # "ReadTimeout"}
    ELSE {reply \in ListingReplies :
             /\ reply.kind # "ReadTimeout"
             /\ \A e \in reply.body.entries : e.name = <<"x">> /\ e.generative}

\* what requests raises into the operation when the timeout expires
TimedOut(op) ==
    IF op = "get_response"
    THEN [kind |-> "ReadTimeout", status |-> "none", body |-> "none", text |-> EmptyStr]
    ELSE IF op = "test_connection"
    THEN [kind |-> "ReadTimeout", status |-> "none", parsable |-> FALSE, models |-> {}]
    ELSE [kind |-> "ReadTimeout", status |-> "none",
          body |-> [kind |-> "unparsable", entries |-> {}]]

\* how an operation ends, given what its request came to
ResultOf(agent, op, reply) ==
    IF op = "get_response"
    THEN LET r == GetResponse(agent, <<"h">>, <<>>, reply, "JSONDecodeError")
         IN  [exc |-> r.exc, val |-> r.val]
    ELSE IF op = "test_connection"
    THEN TestConnection(agent, reply, "success")
    ELSE GetAvailableModels(agent, reply)

\* the thread of a caller inside an operation of its client
Invocation(agent, op, pc, timeout, received, outcome) ==
    [kind |-> op, agent |-> agent, pc |-> pc, timeout |-> timeout,
     received |-> received, outcome |-> outcome]

\* a caller invokes an operation of a client
InvokeEnter ==
    \E agent_class \in ClientClasses, op \in TimedOperations :
        /\ threads = {}
        /\ threads' = {Invocation(BaseAgentInit(agent_class, ConcurrentConfig), op,
                                  "call", <<>>, <<>>, <<>>)}
        /\ UNCHANGED <<coreVars, clients, after_queue, beamVars, chat_history>>

\* the operation issues its request; one that issues none returns its value
InvokeRequest ==
    \E t \in threads :
        /\ t.pc = "call"
        /\ threads' =
              IF RequestsOf(t.agent, t.kind) = 0
              THEN {[t EXCEPT !.pc = "done",
                              !.outcome = <<ResultOf(t.agent, t.kind, TimedOut(t.kind))>>]}
              ELSE {[t EXCEPT !.pc = "waiting",
                              !.timeout = RequestTimeout(t.agent.cls, t.kind)]}
        /\ UNCHANGED <<coreVars, clients, after_queue, beamVars, chat_history>>

\* the request completes: a response, or a failed connection
RequestCompletes ==
    \E t \in threads :
        /\ t.pc = "waiting"
        /\ \E reply \in AnswersTo(t.kind) :
              threads' = {[t EXCEPT !.pc = "done", !.received = <<reply>>,
                                    !.outcome = <<ResultOf(t.agent, t.kind, reply)>>]}
        /\ UNCHANGED <<coreVars, clients, after_queue, beamVars, chat_history>>

\* the timeout of the request expires before an answer
TimeoutExpires ==
    \E t \in threads :
        /\ t.pc = "waiting"
        /\ t.timeout # <<>>
        /\ threads' = {[t EXCEPT !.pc = "done", !.received = <<TimedOut(t.kind)>>,
                                 !.outcome = <<ResultOf(t.agent, t.kind, TimedOut(t.kind))>>]}
        /\ UNCHANGED <<coreVars, clients, after_queue, beamVars, chat_history>>

\* the caller takes the value the operation returned
InvokeReturn ==
    \E t \in threads :
        /\ t.pc = "done"
        /\ threads' = {}
        /\ UNCHANGED <<coreVars, clients, after_queue, beamVars, chat_history>>

NextTimed ==
    \/ InvokeEnter
    \/ InvokeRequest
    \/ RequestCompletes
    \/ TimeoutExpires
    \/ InvokeReturn

\* the thread of the caller runs, and time passes
SpecTimed ==
    /\ Init
    /\ [][NextTimed]_vars
    /\ WF_vars(InvokeRequest)
    /\ WF_vars(TimeoutExpires)

(***************************************************************************)
(* ChatInterface: every message the user sends is added to the history and *)
(* handed to a thread of its own, which asks the agent and schedules the   *)
(* reply on the UI thread.                                                 *)
(***************************************************************************)
\* the messages the user sends during a session, in the order of sending
ChatScript == <<(<<"h">>), <<"j">>, <<"k">>>>

\* ChatInterface.current_agent: a client of the local runner
ChatAgent ==
    BaseAgentInit("OllamaAgent",
                  [name |-> <<(<<"x">>)>>, provider |-> <<ollama>>,
                   model_name |-> <<(<<"x">>)>>, api_key |-> <<>>])

\* the user messages of the history
UserMessages == SelectSeq(chat_history, LAMBDA entry : entry.type = "user")

\* an entry of chat_history; turn numbers the user messages and names, for
\* a reply, the user message it answers (the source's entry has a timestamp
\* in its place)
ChatEntry(type, message, turn) == [type |-> type, message |-> message, turn |-> turn]

\* process_message: the text it schedules for the history (logging,
\* token tracking, saving and reporting leave the text as it is)
ProcessMessage(agent, message, reply) ==
    IF agent.provider = ollama \/ Truthy(agent.api_key)
    THEN GetResponse(agent, message, <<>>, reply, "JSONDecodeError").val
    ELSE <<"Para usar este agente necesitas configurar tu API Key">>

\* the user presses Send: send_message
SendMessage ==
    \E text \in {<<" ">>} \cup
                {ChatScript[i] : i \in {i \in DOMAIN ChatScript : i = Len(UserMessages) + 1}} :
        LET message == Strip(text)
            turn == Len(UserMessages) + 1
        IN  /\ IF message = EmptyStr
               THEN UNCHANGED <<chat_history, threads>>
               ELSE /\ chat_history' = Append(chat_history, ChatEntry("user", message, turn))
                    /\ threads' = threads \cup
                          {[kind |-> "process_message", message |-> message, turn |-> turn]}
            /\ UNCHANGED <<coreVars, clients, after_queue, beamVars>>

\* the thread of a message runs process_message to its end
ProcessMessageRun ==
    \E t \in threads, reply \in BeamReplies :
        /\ t.kind = "process_message"
        /\ after_queue' = Append(after_queue,
              [fn |-> "add_agent_message",
               message |-> ProcessMessage(ChatAgent, t.message, reply),
               turn |-> t.turn])
        /\ threads' = threads \ {t}
        /\ UNCHANGED <<coreVars, clients, beamVars, chat_history>>

\* the UI thread runs the next scheduled add_agent_message
AddAgentMessage ==
    /\ after_queue # <<>>
    /\ Head(after_queue).fn = "add_agent_message"
    /\ after_queue' = Tail(after_queue)
    /\ chat_history' = Append(chat_history,
          ChatEntry("agent", Head(after_queue).message, Head(after_queue).turn))
    /\ UNCHANGED <<coreVars, clients, threads, beamVars>>

NextChat ==
    \/ SendMessage
    \/ ProcessMessageRun
    \/ AddAgentMessage

SpecChat == Init /\ [][NextChat]_vars

(***************************************************************************)
(* Properties of validate_config and of the factory.                       *)
(***************************************************************************)
\* a config field that is absent, None or empty
Missing(config, field) == ~Truthy(DictGet(config, field))

\* the provider argument names one of the four hosted providers, in any casing
IsHostedProvider(provider) ==
    provider # None /\ Lower(provider) \in BuiltinProviders \ {ollama}

\* C3: validate_config() is true iff name, provider and model_name are all
\* non-empty and (api_key is non-empty or the provider is the local runner);
\* so a config with every field set validates for each of the five providers,
\* and without its api_key it validates exactly for the local runner.
C3_ValidateConfigIff ==
    last.op = "validate_config" =>
        LET config == last.agent.config
            complete == /\ ~Missing(config, "name")
                        /\ ~Missing(config, "model_name")
                        /\ ~Missing(config, "api_key")
                        /\ DictGet(config, "provider") \in BuiltinProviders
            without_key == BaseAgentInit(last.agent.cls, [config EXCEPT !.api_key = <<>>])
        IN  /\ last.ret <=>
                  /\ ~Missing(config, "name")
                  /\ ~Missing(config, "provider")
                  /\ ~Missing(config, "model_name")
                  /\ (~Missing(config, "api_key") \/ DictGet(config, "provider") = ollama)
            /\ complete =>
                  /\ last.ret
                  /\ ValidateConfig(without_key) <=> DictGet(config, "provider") = ollama

\* C3 witness: a local-runner config without api_key has been validated, and
\* so has a hosted one that lost its key.
C3_Witness_LocalWithoutKey ==
    /\ last.op = "validate_config"
    /\ last.agent.config.provider = <<ollama>>
    /\ last.agent.config.api_key = <<>>
    /\ last.ret

\* C4: for the four hosted providers, create_agent with validate_api_key=True
\* and a missing or empty api_key returns None and does not raise.
C4_NoKeyNoAgent ==
    (/\ last.op = "create_agent"
     /\ last.validate_api_key
     /\ IsHostedProvider(last.provider)
     /\ Missing(last.config, "api_key"))
    => (last.result.exc = "none" /\ last.result.val = NoAgent)

\* C4 witness: a hosted provider, every field but the api_key set, no instance.
C4_Witness_HostedWithoutKey ==
    /\ last.op = "create_agent"
    /\ last.validate_api_key
    /\ last.provider = Anthropic
    /\ ~Missing(last.config, "name")
    /\ ~Missing(last.config, "model_name")
    /\ last.config.provider = <<anthropic>>
    /\ last.config.api_key = <<EmptyStr>>
    /\ last.result.val = NoAgent

\* the provider argument resolves to no registered class
UnknownProvider(provider) == provider = None \/ Lower(provider) \notin DOMAIN AGENT_CLASSES

\* a field the factory requires of this provider is missing from the config
MissingRequiredField(provider, config) ==
    \/ Missing(config, "name")
    \/ Missing(config, "model_name")
    \/ IsHostedProvider(provider) /\ Missing(config, "api_key")

\* C5 as stated: create_agent never raises, and for an unknown provider, a
\* missing required field or a failing constructor it returns None, for both
\* values of validate_api_key.
C5_Original ==
    last.op = "create_agent" =>
        /\ last.result.exc = "none"
        /\ (\/ UnknownProvider(last.provider)
            \/ MissingRequiredField(last.provider, last.config)
            \/ IsAbstract(last.result.constructed))
           => last.result.val = NoAgent

\* C5 amended: create_agent never raises; it returns None for an unknown
\* provider and for a failing constructor whatever validate_api_key is, and for
\* a missing required field when validate_api_key is True.
C5_NeverRaises ==
    last.op = "create_agent" =>
        /\ last.result.exc = "none"
        /\ (\/ UnknownProvider(last.provider)
            \/ IsAbstract(last.result.constructed)
            \/ last.validate_api_key /\ MissingRequiredField(last.provider, last.config))
           => last.result.val = NoAgent

\* C5 witness: the constructor of the registered class raised inside
\* create_agent, and the caller got None.
C5_Witness_ConstructorFailed ==
    /\ last.op = "create_agent"
    /\ last.result.constructed = "BaseAgent"
    /\ last.result.exc = "none"
    /\ last.result.val = NoAgent

\* C6: a client returned by create_agent with validate_api_key=True satisfies
\* its own validate_config() and reports status "configured"; a config that
\* passes the factory's field check and fails the client's check yields None.
C6_TwoPhaseValidation ==
    (last.op = "create_agent" /\ last.validate_api_key) =>
        /\ last.result.val # NoAgent =>
              /\ ValidateConfig(last.result.val)
              /\ GetInfo(last.result.val).status = "configured"
        /\ (/\ ~UnknownProvider(last.provider)
            /\ FactoryValidateConfig(last.provider, last.config, TRUE)
            /\ \/ Missing(last.config, "provider")
               \/ Missing(last.config, "api_key") /\ DictGet(last.config, "provider") # ollama)
           => last.result.val = NoAgent

\* C6 witness: a config without a provider field passed the factory's check,
\* the client was constructed, its validate_config failed, the caller got None.
C6_Witness_SecondPhaseRejects ==
    /\ last.op = "create_agent"
    /\ last.validate_api_key
    /\ last.config.provider = <<>>
    /\ ~Missing(last.config, "api_key")
    /\ last.result.constructed \in ClientClasses
    /\ last.result.consulted
    /\ last.result.val = NoAgent

\* C7: with validate_api_key=False, create_agent for a provider whose
\* registered class can be instantiated returns an instance of that class
\* built from the config as given, whatever fields are missing, and the
\* client's validate_config() is not consulted.
C7_UnvalidatedCreation ==
    (/\ last.op = "create_agent"
     /\ ~last.validate_api_key
     /\ ~UnknownProvider(last.provider))
    => LET agent_class == AGENT_CLASSES[Lower(last.provider)]
       IN  ~IsAbstract(agent_class) =>
              /\ last.result.exc = "none"
              /\ last.result.val = BaseAgentInit(agent_class, last.config)
              /\ ~last.result.consulted

\* C7 witness: an instance came back for a config with no name, no model_name
\* and no api_key.
C7_Witness_InstanceWithoutFields ==
    /\ last.op = "create_agent"
    /\ ~last.validate_api_key
    /\ last.config.name = <<>>
    /\ last.config.model_name = <<>>
    /\ last.config.api_key = <<>>
    /\ last.result.val # NoAgent
    /\ last.result.val.cls = "GroqAgent"

\* the same config with its provider field in lower case
LowerCased(config) ==
    IF config.provider = <<>> \/ config.provider = <<None>>
    THEN config
    ELSE [config EXCEPT !.provider = <<Lower(config.provider[1])>>]

\* C8: for any casing of a registered identifier, used as the argument and
\* as the config's provider field, create_agent with default validation
\* accepts the config iff it accepts it under the lowercase identifier.
C8_CaseInsensitive ==
    (/\ last.op = "create_agent"
     /\ last.validate_api_key
     /\ last.provider # None
     /\ Lower(last.provider) \in BuiltinProviders
     /\ last.config.provider = <<last.provider>>)
    => ((last.result.val # NoAgent)
          <=> (CreateAgent(AGENT_CLASSES, Lower(last.provider),
                           LowerCased(last.config), TRUE).val # NoAgent))

\* C9: test_agent_connection never raises, and when create_agent with default
\* validation yields no agent it returns success = false without any network
\* request; a request is issued only for an agent that creation returned.
C9_NoProbeWithoutAgent ==
    last.op = "test_agent_connection" =>
        LET created == CreateAgent(AGENT_CLASSES, last.provider, last.config, TRUE)
        IN  /\ last.result.exc = "none"
            /\ last.result.val.success \in BOOLEAN
            /\ created.val = NoAgent =>
                  /\ ~last.result.val.success
                  /\ last.result.requests = 0
                  /\ last.received = <<>>
            /\ last.result.requests > 0 => created.val # NoAgent

\* C9 witness: creation failed for a hosted provider without api_key and the
\* caller got a failure record.
C9_Witness_CreationFailed ==
    /\ last.op = "test_agent_connection"
    /\ last.provider = openai
    /\ Missing(last.config, "api_key")
    /\ ~last.result.val.success
    /\ last.result.requests = 0

\* C10: register_agent_class raises for a class that is no BaseAgent subtype
\* and then leaves the registry as it was; an accepted class is stored under
\* the lowercased provider, the other entries untouched, and create_agent
\* for that provider, in any casing, constructs the registered class.
C10_RegisterAgentClass ==
    [][/\ (last'.op = "register_agent_class" /\ ~IsSubclassOfBaseAgent(last'.agent_class))
          => (last'.exc = "ValueError" /\ AGENT_CLASSES' = AGENT_CLASSES)
       /\ (last'.op = "register_agent_class" /\ IsSubclassOfBaseAgent(last'.agent_class))
          => /\ last'.exc = "none"
             /\ DOMAIN AGENT_CLASSES' = DOMAIN AGENT_CLASSES \cup {Lower(last'.provider)}
             /\ \A p \in DOMAIN AGENT_CLASSES' :
                   AGENT_CLASSES'[p] =
                       IF p = Lower(last'.provider) THEN last'.agent_class ELSE AGENT_CLASSES[p]
       /\ (/\ last'.op = "create_agent"
           /\ ~UnknownProvider(last'.provider)
           /\ ~last'.validate_api_key \/ FactoryValidateConfig(last'.provider, last'.config, TRUE))
          => last'.result.constructed = AGENT_CLASSES[Lower(last'.provider)]
      ]_vars

\* C10 witness: after a registration under "custom", create_agent("Custom")
\* constructed the registered class.
C10_Witness_DispatchToRegistered ==
    /\ last.op = "create_agent"
    /\ last.provider = Custom
    /\ last.result.constructed = "CustomAgent"
    /\ last.result.val # NoAgent

(***************************************************************************)
(* Properties of get_response.                                             *)
(***************************************************************************)
\* the completion call of the last get_response failed: no reply, an error
\* status, or a 200 without the reply text
CompletionFailed ==
    /\ last.received # <<>>
    /\ \/ last.received[1].kind # "response"
       \/ last.received[1].status # "200"
       \/ last.received[1].body # "reply"

\* C1: get_response never raises; it returns a string for every message,
\* context and network outcome, and the string starts with "Error:" whenever
\* the call failed (transport error, timeout, error status, unparsable body,
\* body without the reply field) or a turn of the context was unusable.
C1_GetResponseNeverRaises ==
    last.op = "get_response" =>
        /\ last.result.exc = "none"
        /\ last.result.val \in Seq(STRING)
        /\ CompletionFailed => StartsWithError(last.result.val)
        /\ last.received = <<>> => StartsWithError(last.result.val)

\* C1 witness: a 200 reply without the expected field came back as an
\* "Error:" string from the generic handler.
C1_Witness_MissingField ==
    /\ last.op = "get_response"
    /\ last.agent.cls = "GeminiAgent"
    /\ last.received # <<>>
    /\ last.received[1].body = "missing_field"
    /\ last.result.exc = "none"
    /\ StartsWithError(last.result.val)
    /\ last.result.val[2] = "Error procesando respuesta de "

\* C2: when the provider answers 200 with the reply text, get_response returns
\* that text stripped of leading and trailing whitespace, and no "Error:"
\* string, the logging step between extraction and return included.
C2_ReturnsStrippedText ==
    (/\ last.op = "get_response"
     /\ last.received # <<>>
     /\ last.received[1].kind = "response"
     /\ last.received[1].status = "200"
     /\ last.received[1].body = "reply")
    => /\ last.result.exc = "none"
       /\ last.result.val = Strip(last.received[1].text)
       /\ ~StartsWithError(last.result.val)

(***************************************************************************)
(* Properties of the AgentManager.                                         *)
(***************************************************************************)
\* C11: set_default_agent(id) makes id the default when a client is kept
\* under id at the time of the call; otherwise the default stays what it was.
\* Either way the kept clients are untouched.
C11_SetDefaultOnlyRegistered ==
    [][last'.op = "set_default_agent" =>
        /\ active_agents' = active_agents
        /\ default_agent' = IF last'.agent_id \in DOMAIN active_agents
                            THEN last'.agent_id
                            ELSE default_agent]_vars

\* set_default_agent was called with an id under which nothing is kept, while
\* another id was the default
C11_Witness_UnknownIdKeepsDefault ==
    /\ last.op = "set_default_agent"
    /\ last.agent_id \notin DOMAIN active_agents
    /\ default_agent # None
    /\ default_agent # last.agent_id

\* what a keyed map answers for key k after the step that made last' out of
\* a map answering `before`
KeyedMapAfter(k, before) ==
    IF last'.op = "add_agent" /\ last'.agent_id = k THEN last'.agent
    ELSE IF last'.op = "remove_agent" /\ last'.agent_id = k THEN NoAgent
    ELSE IF last'.op = "clear_agents" THEN NoAgent
    ELSE before

\* C12: the manager is a keyed map.  Across every step get_agent(k) answers
\* what a keyed map answers (the client last added under k, nothing once k
\* is removed or the manager cleared, and otherwise what it answered
\* before); a get_agent call returns that answer; list_agents has exactly
\* the ids under which a client is kept, each with that client's get_info();
\* after clear_agents nothing is kept and get_default_agent returns nothing.
C12_KeyedMap ==
    [][/\ \A k \in AgentIds :
            GetAgent(active_agents', k) = KeyedMapAfter(k, GetAgent(active_agents, k))
       /\ last'.op = "get_agent" =>
            last'.ret = GetAgent(active_agents, last'.agent_id)
       /\ last'.op = "list_agents" =>
            /\ DOMAIN last'.ret = {k \in AgentIds : GetAgent(active_agents, k) # NoAgent}
            /\ \A k \in DOMAIN last'.ret :
                  last'.ret[k] = GetInfo(GetAgent(active_agents, k))
       /\ last'.op = "clear_agents" =>
            /\ DOMAIN active_agents' = {}
            /\ GetDefaultAgent(active_agents', default_agent') = NoAgent]_vars

\* get_agent returned the client kept under its id while another id keeps a
\* client of another class
C12_Witness_GetAfterOverwrite ==
    /\ last.op = "get_agent"
    /\ last.ret # NoAgent
    /\ last.ret.cls = "OllamaAgent"
    /\ \E k \in DOMAIN active_agents : active_agents[k].cls = "OpenAIAgent"

(***************************************************************************)
(* Properties of get_info.                                                 *)
(***************************************************************************)
\* C13: get_info() reports status "configured" exactly when validate_config()
\* holds and "error" otherwise, together with name, provider, model_name,
\* max_tokens and temperature as the construction config gives them, and
\* max_tokens 2048 and temperature 0.7 when the config names none.
C13_GetInfo ==
    last.op = "get_info" =>
        LET config == last.agent.config
            info == last.ret
        IN  /\ info.status = (IF ValidateConfig(last.agent) THEN "configured" ELSE "error")
            /\ \A field \in {"name", "provider", "model_name", "max_tokens", "temperature"} :
                  HasKey(config, field) => info[field] = config[field][1]
            /\ ~HasKey(config, "max_tokens") => info.max_tokens = 2048
            \* 0.7, in tenths
            /\ ~HasKey(config, "temperature") => info.temperature = 7

\* get_info() of a client whose config lacks the API key, max_tokens and
\* temperature: status "error" with the default limits
C13_Witness_ErrorWithDefaults ==
    /\ last.op = "get_info"
    /\ last.ret.status = "error"
    /\ last.agent.config.max_tokens = <<>>
    /\ last.agent.config.temperature = <<>>
    /\ last.agent.config.name # <<>>

C15_CostNonNegative ==
    last.op = "estimate_cost" =>
        /\ last.result.exc = "none"
        /\ last.result.val >= 0
        /\ last.agent.cls = "OllamaAgent" => last.result.val = 0

\* the local runner was asked the cost of two texts of a token or more
C15_Witness_LocalRunnerFree ==
    /\ last.op = "estimate_cost"
    /\ last.agent.cls = "OllamaAgent"
    /\ Len(last.message) >= 4
    /\ Len(last.response) >= 4
    /\ last.result.val = 0

\* C16 as stated: for a fixed client and model, texts whose lengths add up
\* to no more cost no more.
C16_Original ==
    last.op = "estimate_cost" =>
        \A message2 \in CostTexts, response2 \in CostTexts :
            Len(last.message) + Len(last.response) <= Len(message2) + Len(response2)
            => last.result.val <= EstimateCost(last.agent, message2, response2).val

\* C16, amended: for a fixed client and model the cost grows with the length
\* of each text: a message no longer and a response no longer cost no more.
C16_MonotoneInEachLength ==
    last.op = "estimate_cost" =>
        \A message2 \in CostTexts, response2 \in CostTexts :
            (/\ Len(last.message) <= Len(message2)
             /\ Len(last.response) <= Len(response2))
            => last.result.val <= EstimateCost(last.agent, message2, response2).val

\* a hosted client priced a message of a token or more, and a longer message
\* with a longer response costs strictly more
C16_Witness_LongerCostsMore ==
    /\ last.op = "estimate_cost"
    /\ last.agent.cls # "OllamaAgent"
    /\ Len(last.message) >= 4
    /\ last.result.val > 0
    /\ \E message2 \in CostTexts, response2 \in CostTexts :
          /\ Len(last.message) <= Len(message2)
          /\ Len(last.response) <= Len(response2)
          /\ last.result.val < EstimateCost(last.agent, message2, response2).val

\* the price of two texts at the rates the table of a client has for a model,
\* each text counted by itself at 4 characters a token
PriceAt(agent_class, model, message, response) ==
    (Len(message) \div 4) * CostTable(agent_class)[model].input
    + (Len(response) \div 4) * CostTable(agent_class)[model].output

\* C17: for a model the rate table of a hosted client lacks, estimate_cost
\* does not raise and returns the price of the same texts at the rates of the
\* client's default model, the tokens of the message and of the response
\* estimated independently as length // 4.
C17_UnknownModelDefaultRates ==
    (/\ last.op = "estimate_cost"
     /\ last.agent.cls # "OllamaAgent"
     /\ last.agent.model_name \notin DOMAIN CostTable(last.agent.cls))
    => /\ last.result.exc = "none"
       /\ last.result.val =
             PriceAt(last.agent.cls, DefaultCostModel(last.agent.cls),
                     last.message, last.response)

\* GroqAgent priced two texts of a token or more for a model its table lacks
C17_Witness_GroqUnknownModel ==
    /\ last.op = "estimate_cost"
    /\ last.agent.cls = "GroqAgent"
    /\ last.agent.model_name = <<"x">>
    /\ Len(last.message) >= 4
    /\ Len(last.response) >= 4
    /\ last.result.val = 590 + 790

(***************************************************************************)
(* Properties of get_available_models and test_connection.                 *)
(***************************************************************************)
\* the listing request failed or brought no list: a transport error, a status
\* other than 200, a body that is not JSON, or one without the listing field
ListingFailed(reply) ==
    \/ reply.kind # "response"
    \/ reply.status # "200"
    \/ reply.body.kind \in {"unparsable", "array", "no_field"}

\* C18: get_available_models never raises, and whenever the listing request
\* fails or brings no list it returns the client's fixed fallback list, which
\* is not empty.
C18_FallbackOnFailure ==
    last.op = "get_available_models" =>
        /\ last.result.exc = "none"
        /\ \A i \in 1..Len(last.received) :
              ListingFailed(last.received[i]) =>
                  /\ last.result.val = FallbackModels(last.agent.cls)
                  /\ Len(last.result.val) > 0

\* C19: test_connection of the five clients never raises: whatever the probe
\* comes back with, it returns a record whose success field is a boolean,
\* and success is TRUE only when the probe was answered with HTTP 200 and,
\* for the local runner, the configured model is among the listed ones.
C19_TestConnectionNeverRaises ==
    last.op = "test_connection" =>
        /\ last.result.exc = "none"
        /\ last.result.val.success \in BOOLEAN
        /\ last.result.val.success =>
              /\ last.received.kind = "response"
              /\ last.received.status = "200"
              /\ last.agent.cls = "OllamaAgent" =>
                    last.agent.model_name \in last.received.models

\* the local runner answered the probe with 200 and a listing without the
\* configured model: test_connection returned success FALSE
C19_Witness_ModelNotListed ==
    /\ last.op = "test_connection"
    /\ last.agent.cls = "OllamaAgent"
    /\ last.received.status = "200"
    /\ last.received.parsable
    /\ last.received.models = {<<"y">>}
    /\ last.result.exc = "none"
    /\ last.result.val.success = FALSE

(***************************************************************************)
(* Properties of the local runner's error reporting.                       *)
(***************************************************************************)
\* C20: when the local runner refuses the connection, OllamaAgent.get_response
\* returns, and does not raise, a string that starts with "Error:" and says
\* that Ollama is not running and how to start it; the string differs from
\* the one the same client returns when the request fails in transit
\* otherwise (a read timeout), which is the generic connection-error string.
C20_LocalRunnerNotRunning ==
    (/\ last.op = "get_response"
     /\ last.agent.cls = "OllamaAgent"
     /\ last.received # <<>>
     /\ last.received[1].kind = "ConnectionError")
    => /\ last.result.exc = "none"
       /\ StartsWithError(last.result.val)
       /\ last.result.val[2] = "Ollama no esta ejecutandose. Inicia Ollama con 'ollama serve'"
       /\ \A other \in CompletionReplies :
             other.kind = "ReadTimeout" =>
                LET generic == GetResponse(last.agent, last.message, last.context,
                                           other, last.json_error)
                IN  /\ generic.exc = "none"
                    /\ generic.val[2] = "Error de conexion con "
                    /\ generic.val # last.result.val

\* the local runner refused the connection of a get_response call
C20_Witness_ConnectionRefused ==
    /\ last.op = "get_response"
    /\ last.agent.cls = "OllamaAgent"
    /\ last.received # <<>>
    /\ last.received[1].kind = "ConnectionError"
    /\ last.result.requests = 1
    /\ last.result.val[1] = "Error: "

(***************************************************************************)
(* Properties of the request get_response posts.                           *)
(***************************************************************************)
\* a context made of conversation turns: role user or assistant, with content
IsConversation(context) ==
    \A i \in 1..Len(context) :
        /\ context[i].role \in {<<(<<"user">>)>>, <<(<<"assistant">>)>>}
        /\ context[i].content # <<>>

\* the turns of a posted payload, in the order of the wire: the messages of
\* OpenAI, Groq and Claude, the contents of Gemini, the prompt lines of Ollama
\* before the closing "Asistente:" cue
WireTurns(agent_class, payload) ==
    CASE agent_class = "GeminiAgent" -> payload.contents
      [] agent_class = "OllamaAgent" ->
            IF Len(payload.prompt) > 1
            THEN SubSeq(payload.prompt, 1, Len(payload.prompt) - 1)
            ELSE payload.prompt
      [] OTHER -> payload.messages

\* the content of each turn of a posted payload
WireContents(agent_class, payload) ==
    LET turns == WireTurns(agent_class, payload)
    IN  [i \in 1..Len(turns) |->
            IF agent_class \in {"OpenAIAgent", "GroqAgent"}
            THEN turns[i].content[1]
            ELSE turns[i].content]

BuiltinRequestFields(agent_class) ==
    CASE agent_class = "GeminiAgent" ->
            {"contents", "generationConfig", "temperature", "maxOutputTokens"}
      [] agent_class = "OllamaAgent" ->
            {"model", "prompt", "stream", "options", "temperature", "num_predict"}
      [] OTHER -> {"model", "messages", "max_tokens", "temperature"}

\* the dict of the payload that default_params is spread into
MergeTarget(agent_class, payload) ==
    CASE agent_class = "GeminiAgent" -> payload.generationConfig
      [] agent_class = "OllamaAgent" -> payload.options
      [] OTHER -> payload

\* the value the request carries for a built-in field
FieldSent(agent_class, payload, key) ==
    IF key \in DOMAIN payload
    THEN payload[key]
    ELSE MergeTarget(agent_class, payload)[key]

\* C22 as stated: for every client, a key that default_params shares with the
\* built-in request fields is sent with the value of default_params.
C22_Original ==
    (last.op = "get_response" /\ Len(last.posted) = 1)
    => \A key \in DOMAIN last.agent.default_params \cap BuiltinRequestFields(last.agent.cls) :
          FieldSent(last.agent.cls, last.posted[1], key) = last.agent.default_params[key]

\* C22, amended: default_params is spread last into the dict that carries the
\* generation parameters (the payload itself for OpenAI, Groq and Claude,
\* generationConfig for Gemini, options for Ollama): every key of
\* default_params is in that dict with the value of default_params, whatever
\* built-in field of that dict has the same key.
C22_MergedLastIntoTarget ==
    (last.op = "get_response" /\ Len(last.posted) = 1)
    => LET target == MergeTarget(last.agent.cls, last.posted[1])
       IN  \A key \in DOMAIN last.agent.default_params :
              /\ key \in DOMAIN target
              /\ target[key] = last.agent.default_params[key]

\* a request went out whose default_params names the temperature, which is a
\* built-in field of the dict it is spread into
C22_Witness_TemperatureOverridden ==
    /\ last.op = "get_response"
    /\ Len(last.posted) = 1
    /\ last.agent.cls = "GeminiAgent"
    /\ "temperature" \in DOMAIN last.agent.default_params
    /\ last.agent.temperature = 7
    /\ last.posted[1].generationConfig.temperature = 3

(***************************************************************************)
(* Properties of concurrent calls.                                         *)
(***************************************************************************)
\* that two get_response calls are running at once, on two instances
TwoCallsRunning ==
    \E t1 \in threads, t2 \in threads :
        /\ t1.kind = "get_response" /\ t2.kind = "get_response"
        /\ t1.client # t2.client

\* C23: of two get_response calls running at once on two instances, each
\* returns the result of its own provider call (the stripped text of the reply
\* it received, or an "Error:" string when its request failed), and neither
\* instance's stored attributes nor a caller's context list are changed.
C23_IndependentResults ==
    TwoCallsRunning =>
        /\ \A t \in threads :
              (t.kind = "get_response" /\ t.pc = "done") =>
                  /\ t.outcome.exc = "none"
                  /\ t.context = t.supplied
                  /\ \A i \in 1..Len(t.received) :
                        IF t.received[i].body = "reply"
                        THEN t.outcome.val = Strip(t.received[i].text)
                        ELSE StartsWithError(t.outcome.val)
        /\ \A client \in DOMAIN clients :
              clients[client] = BaseAgentInit(clients[client].cls, clients[client].config)

(***************************************************************************)
(* Properties of the comparison view.                                      *)
(***************************************************************************)
\* the threads of a comparison that have not run to their end
Unfinished(request) == {t \in threads : t.request = request /\ t.pc # "done"}

\* C24: on_all_responses_complete is scheduled for a comparison only after
\* every worker started for it has run to its end, with a reply or with an
\* error, whatever the order in which the workers end: while the callback of
\* a comparison is queued, no thread of that comparison is still running.
C24_CompleteAfterAllWorkers ==
    \A i \in DOMAIN after_queue : Unfinished(after_queue[i].request) = {}

\* C24 witness: the callback of a comparison of two models is queued, and
\* both workers have stored their entry, one a reply and one an error
C24_Witness_BothCompleted ==
    \E i \in DOMAIN after_queue :
        /\ Len(after_queue[i].selected_models) = 2
        /\ DOMAIN current_responses = BeamIds
        /\ \A id \in BeamIds : current_responses[id].request = after_queue[i].request
        /\ \E id \in BeamIds : current_responses[id].success
        /\ \E id \in BeamIds : ~current_responses[id].success

(***************************************************************************)
(* Properties of the network requests of a call.                           *)
(***************************************************************************)
\* C25: a get_response call issues at most one network request; when that
\* request fails (transport error, timeout, error status, body without the
\* reply text) the call has issued exactly one request and returns an
\* "Error:" string: the failure is reported once and nothing is retried.
C25_OneRequestNoRetry ==
    last.op = "get_response" =>
        /\ last.result.requests \in {0, 1}
        /\ CompletionFailed =>
              /\ last.result.requests = 1
              /\ last.result.exc = "none"
              /\ StartsWithError(last.result.val)

\* C25 witness: the one request of a call timed out and the call returned
\* the connection error string
C25_Witness_TimedOutOnce ==
    /\ last.op = "get_response"
    /\ last.received # <<>>
    /\ last.received[1].kind = "ReadTimeout"
    /\ last.result.requests = 1
    /\ StartsWithError(last.result.val)
    /\ last.result.val[2] = "Error de conexion con "

\* a call of get_response, test_connection or get_available_models is under way
Invoked == \E t \in threads : t.kind \in TimedOperations /\ t.pc \in {"call", "waiting"}

\* the call under way has returned a value
Returned ==
    \E t \in threads :
        /\ t.kind \in TimedOperations /\ t.pc = "done"
        /\ t.outcome[1].exc = "none"

\* every request waited for has a timeout, and a call whose request timed out
\* returned what it returns for a failed request: the "Error:" string, the
\* unsuccessful probe result, the fixed list of models
TimeoutIsOrdinaryFailure ==
    \A t \in threads :
        /\ t.kind \in TimedOperations /\ t.pc = "waiting" => t.timeout # <<>>
        /\ t.kind \in TimedOperations /\ t.pc = "done" /\ t.received = <<TimedOut(t.kind)>> =>
              /\ t.outcome[1].exc = "none"
              /\ t.kind = "get_response" => StartsWithError(t.outcome[1].val)
              /\ t.kind = "test_connection" => ~t.outcome[1].val.success
              /\ t.kind = "get_available_models" =>
                    t.outcome[1].val = FallbackModels(t.agent.cls)

\* C26: every request is issued with a finite timeout, so every call of
\* get_response, test_connection and get_available_models eventually returns
\* a value, given that a request either completes or reaches its timeout; a
\* request that timed out is reported as an ordinary failure.
C26_EveryCallReturns == (Invoked ~> Returned) /\ []TimeoutIsOrdinaryFailure

\* C26 witness: the generation request of the local runner reached its
\* timeout of 60 seconds and get_response returned an "Error:" string
C26_Witness_GenerationTimedOut ==
    \E t \in threads :
        /\ t.kind = "get_response" /\ t.pc = "done"
        /\ t.agent.cls = "OllamaAgent"
        /\ t.timeout = <<60>>
        /\ t.received = <<TimedOut("get_response")>>
        /\ StartsWithError(t.outcome[1].val)

(***************************************************************************)
(* Properties of the default designation of the manager.                   *)
(***************************************************************************)
\* what get_default_agent() returns in the current state
DefaultNow == GetDefaultAgent(active_agents, default_agent)

\* C27: removing the default agent clears the default designation: right
\* after remove_agent(d) of the current default d, get_default_agent()
\* returns nothing, and once it returns nothing it keeps returning nothing
\* through every call other than a set_default_agent, add_agent under the
\* removed id included.
C27_RemoveClearsDefault ==
    [][/\ (last'.op = "remove_agent" /\ last'.agent_id = default_agent)
            => GetDefaultAgent(active_agents', default_agent') = NoAgent
       /\ (DefaultNow = NoAgent /\ last'.op # "set_default_agent")
            => GetDefaultAgent(active_agents', default_agent') = NoAgent]_vars

\* the UI thread runs the callback at the head of the queue in this step
CallbackRuns == after_queue # <<>> /\ after_queue' = Tail(after_queue)

\* C28: when on_all_responses_complete runs for a comparison,
\* current_responses holds one entry for each model selected in that
\* comparison and no entry of another comparison, whatever the user did while
\* the comparison was in flight (Clear, checkbox toggles, a second Send).
C28_EntriesOfTheRequest ==
    [][CallbackRuns =>
          LET callback == Head(after_queue)
          IN  /\ DOMAIN current_responses =
                     {callback.selected_models[i] : i \in DOMAIN callback.selected_models}
              /\ \A id \in DOMAIN current_responses :
                     current_responses[id].request = callback.request]_vars

\* the entry of a model holds a genuine reply of its get_response
GenuineReply(entry) == entry.response # None /\ ~StartsWithError(entry.response)

\* C29: a model counts as successful only when its get_response returned a
\* genuine reply: an entry whose response starts with "Error:" has success
\* false, and the successful count on_all_responses_complete reports is the
\* number of entries with a genuine reply.
C29_ErrorReplyNotSuccessful ==
    /\ [](\A id \in DOMAIN current_responses :
              current_responses[id].success => GenuineReply(current_responses[id]))
    /\ [][CallbackRuns =>
             status_label'.counts[1] =
                 Cardinality({id \in DOMAIN current_responses :
                                 GenuineReply(current_responses[id])})]_vars

(***************************************************************************)
(* Properties of the chat history.                                         *)
(***************************************************************************)
\* C30: the replies of the agent are appended to the chat history in the
\* order of the user messages they answer, however the threads of the
\* messages interleave.
C30_RepliesInMessageOrder ==
    \A i \in DOMAIN chat_history, j \in DOMAIN chat_history :
        (/\ i < j
         /\ chat_history[i].type = "agent"
         /\ chat_history[j].type = "agent")
            => chat_history[i].turn < chat_history[j].turn

====
